---- MODULE Spec2Model ----
(***************************************************************************)
(* Model of the client-side prescreening simulator: the pure resolution    *)
(* engine (lib/simulator/engine.ts), the evaluator of auto-evaluated       *)
(* question types (lib/simulator/evaluator.ts) and the useSimulator hook   *)
(* (lib/simulator/useSimulator.ts) that drives the six phases and keeps    *)
(* the back-navigation history; and of the version polling of the         *)
(* inspector (lib/context/AppContext.tsx) with the editors that suppress   *)
(* its reload.                                                             *)
(*                                                                         *)
(* Representation.  A JavaScript string whose characters matter (option    *)
(* ids and labels, gender, dates, free text) is a tuple of one-character   *)
(* strings.  Identifiers that are only compared or looked up (qids,        *)
(* symptom names, department and severity ids) are TLA+ strings.  A        *)
(* JavaScript value is a record with a kind tag `k` and one field per      *)
(* kind, so that values of different kinds can be compared.  A JavaScript  *)
(* object used as a map is a function with a finite domain.                *)
(***************************************************************************)
EXTENDS Integers, Sequences, FiniteSets, TLC

VARIABLES phase, demographics, allAnswers, primarySymptom, secondarySymptoms,
          erCriticalFlags, erChecklistFlags, pending, currentQuestion,
          terminated, result, history, textOverrides, lastCall, trail,
          probe, outcome,
          version, reloadKey, isEditing, mounted, serverVersion, inFlight,
          displayed, polled, owed

sessionVars == <<phase, demographics, allAnswers, primarySymptom,
                 secondarySymptoms, erCriticalFlags, erChecklistFlags,
                 pending, currentQuestion, terminated, result>>

vars == <<phase, demographics, allAnswers, primarySymptom, secondarySymptoms,
          erCriticalFlags, erChecklistFlags, pending, currentQuestion,
          terminated, result, history, textOverrides, lastCall, trail,
          probe, outcome,
          version, reloadKey, isEditing, mounted, serverVersion, inFlight,
          displayed, polled, owed>>

\* the call of a pure function of the engine or the evaluator made outside
\* a session, and what it has returned so far
callVars == <<probe, outcome>>

\* AppContext's version, reloadKey and isEditing; whether the effect of
\* useVersionPolling is mounted; the version the server would answer; the
\* fetchVersion calls not yet settled; and the version of the data the
\* tabs show.  polled records what the last settled poll did, owed that a
\* poll has seen the version change and no data has been loaded since
appVars == <<version, reloadKey, isEditing, mounted, serverVersion, inFlight,
             displayed, polled, owed>>

----------------------------------------------------------------------------
(* Bounds of the model *)

\* longest list of secondary symptoms the symptom selector submits
MaxSecondary == 1

\* the ruleset versions the server goes through, and the fetchVersion
\* calls that can be unsettled at one time
MaxVersions == 3
MaxInFlight == 2

\* the count of consecutive goBack calls kept in lastCall stops here
MaxBacks == 2

\* the activations of enterSequentialPhase(5, ...) followed within one call
MaxEntries == 3

----------------------------------------------------------------------------
(* Generic helpers *)

EmptyMap == <<>>

\* {...a, ...b}: the keys of both, b's value where both have the key
Spread(a, b) == [k \in (DOMAIN a) \cup (DOMAIN b) |->
                    IF k \in DOMAIN b THEN b[k] ELSE a[k]]

Range(s) == {s[i] : i \in 1..Len(s)}

\* the least and the greatest element of a set of indices that is not empty
Least(S) == CHOOSE i \in S : \A j \in S : i <= j
Greatest(S) == CHOOSE i \in S : \A j \in S : j <= i

\* the least index in a set of indices, 0 when the set is empty (the set
\* is evaluated once, as S)
FirstOf(indices) ==
    CHOOSE m \in {IF S = {} THEN 0 ELSE Least(S) : S \in {indices}} : TRUE

\* the last index in a set of indices, 0 when the set is empty
LastOf(indices) ==
    CHOOSE m \in {IF S = {} THEN 0 ELSE Greatest(S) : S \in {indices}} : TRUE

----------------------------------------------------------------------------
(* JavaScript strings as tuples of characters *)

UpperChars == <<"A","B","C","D","E","F","G","H","I","J","K","L","M",
                "N","O","P","Q","R","S","T","U","V","W","X","Y","Z">>
LowerChars == <<"a","b","c","d","e","f","g","h","i","j","k","l","m",
                "n","o","p","q","r","s","t","u","v","w","x","y","z">>
DigitChars == <<"0","1","2","3","4","5","6","7","8","9">>

IsDigit(c) == \E i \in 1..10 : DigitChars[i] = c
DigitVal(c) == FirstOf({i \in 1..10 : DigitChars[i] = c}) - 1
IsSpace(c) == c = " "

\* String.prototype.toLowerCase
LowerOf(c, j) == IF j = 0 THEN c ELSE LowerChars[j]

toLowerCase(s) ==
    CHOOSE r \in {[i \in 1..Len(t) |->
                     LowerOf(t[i], FirstOf({j \in 1..26 : UpperChars[j] = t[i]}))] :
                  t \in {s}} : TRUE

\* String.prototype.trim
TrimBetween(s, a, b) == IF a = 0 THEN <<>> ELSE SubSeq(s, a, b)

trim(s) ==
    CHOOSE r \in {TrimBetween(t, FirstOf({i \in 1..Len(t) : ~IsSpace(t[i])}),
                              LastOf({i \in 1..Len(t) : ~IsSpace(t[i])})) :
                  t \in {s}} : TRUE

AllDigits(s) == Len(s) > 0 /\ \A i \in 1..Len(s) : IsDigit(s[i])

RECURSIVE DigitsValue(_)
DigitsValue(s) ==
    CHOOSE n \in {IF Len(t) = 0 THEN 0
                  ELSE 10 * DigitsValue(SubSeq(t, 1, Len(t) - 1))
                       + DigitVal(t[Len(t)]) :
                  t \in {s}} : TRUE

RECURSIVE Pow10(_)
Pow10(n) == IF n = 0 THEN 1 ELSE 10 * Pow10(n - 1)

\* the text matched by \d+(?:\.\d+)? read by parseFloat, as the fraction
\* num/den; ok is FALSE when the text does not have that shape
DecimalOf(ip, fp) ==
    IF AllDigits(ip) /\ AllDigits(fp)
    THEN [ok |-> TRUE,
          num |-> DigitsValue(ip) * Pow10(Len(fp)) + DigitsValue(fp),
          den |-> Pow10(Len(fp))]
    ELSE [ok |-> FALSE, num |-> 0, den |-> 1]

DecimalAt(s, dot) ==
    IF dot = 0
    THEN [ok |-> AllDigits(s), num |-> DigitsValue(s), den |-> 1]
    ELSE DecimalOf(SubSeq(s, 1, dot - 1), SubSeq(s, dot + 1, Len(s)))

ParseDecimal(s) ==
    CHOOSE r \in {DecimalAt(t, FirstOf({i \in 1..Len(t) : t[i] = "."})) :
                  t \in {s}} : TRUE

----------------------------------------------------------------------------
(* JavaScript values *)

StrV(s)  == [k |-> "str",  s |-> s,    n |-> 0, b |-> FALSE, l |-> <<>>, o |-> <<>>]
NumV(n)  == [k |-> "num",  s |-> <<>>, n |-> n, b |-> FALSE, l |-> <<>>, o |-> <<>>]
BoolV(b) == [k |-> "bool", s |-> <<>>, n |-> 0, b |-> b,     l |-> <<>>, o |-> <<>>]
ListV(l) == [k |-> "list", s |-> <<>>, n |-> 0, b |-> FALSE, l |-> l,    o |-> <<>>]
ObjV(o)  == [k |-> "obj",  s |-> <<>>, n |-> 0, b |-> FALSE, l |-> <<>>, o |-> o]
NullV    == [k |-> "null", s |-> <<>>, n |-> 0, b |-> FALSE, l |-> <<>>, o |-> <<>>]

\* the value read from a map at a key: undefined reads as NullV
Get(m, key) == IF key \in DOMAIN m THEN m[key] ELSE NullV

\* a Record<string, boolean> as stored among the answers
FlagValues(flags) == [q \in DOMAIN flags |-> BoolV(flags[q])]

RECURSIVE NatToChars(_)
NatToChars(n) ==
    IF n < 10 THEN <<DigitChars[n + 1]>>
    ELSE NatToChars(n \div 10) \o <<DigitChars[(n % 10) + 1]>>

\* String(v) for the kinds the rule data and the answers use
ToStr(v) ==
    CASE v.k = "str"  -> v.s
      [] v.k = "num"  -> IF v.n < 0 THEN <<"-">> \o NatToChars(0 - v.n)
                         ELSE NatToChars(v.n)
      [] v.k = "bool" -> IF v.b THEN <<"t","r","u","e">>
                         ELSE <<"f","a","l","s","e">>
      [] v.k = "null" -> <<"n","u","l","l">>
      [] OTHER        -> <<"[","o","b","j","e","c","t","]">>

\* Number(v): nan is TRUE when the coercion yields NaN
NaN == [nan |-> TRUE, n |-> 0]

\* Number(text) for a text of decimal digits, blank text giving 0
TextNumber(t) ==
    IF t = <<>> THEN [nan |-> FALSE, n |-> 0]
    ELSE IF AllDigits(t) THEN [nan |-> FALSE, n |-> DigitsValue(t)]
    ELSE NaN

\* Number(v): nan is TRUE when the coercion yields NaN
ToNumber(v) ==
    CASE v.k = "num"  -> [nan |-> FALSE, n |-> v.n]
      [] v.k = "bool" -> [nan |-> FALSE, n |-> IF v.b THEN 1 ELSE 0]
      [] v.k = "null" -> [nan |-> FALSE, n |-> 0]
      [] v.k = "str"  -> TextNumber(trim(v.s))
      [] v.k = "list" -> IF Len(v.l) = 0 THEN [nan |-> FALSE, n |-> 0]
                         ELSE IF Len(v.l) = 1 /\ v.l[1].k = "num"
                              THEN [nan |-> FALSE, n |-> v.l[1].n]
                              ELSE IF Len(v.l) = 1 /\ v.l[1].k = "str"
                                   THEN TextNumber(trim(v.l[1].s))
                                   ELSE NaN
      [] OTHER        -> NaN

\* a === b; two lists or two objects are never the same reference here,
\* since one comes from the answers and the other from the rule data
StrictEq(a, b) ==
    /\ a.k = b.k
    /\ CASE a.k = "str"  -> a.s = b.s
         [] a.k = "num"  -> a.n = b.n
         [] a.k = "bool" -> a.b = b.b
         [] a.k = "null" -> TRUE
         [] OTHER        -> FALSE

\* String.prototype.includes
StrIncludes(s, sub) ==
    \E i \in 1..(Len(s) + 1) :
        /\ i + Len(sub) - 1 <= Len(s)
        /\ SubSeq(s, i, i + Len(sub) - 1) = sub

\* Array.prototype.includes on a list of scalar values
ListIncludes(l, v) == \E i \in 1..Len(l) : StrictEq(l[i], v)

----------------------------------------------------------------------------
(* Actions and questions of the rule data (types/simulator.ts) *)

NoAction == [action |-> "none", qid |-> <<>>, department |-> <<>>,
             severity |-> <<>>, reason |-> "null"]
Goto(targets) == [action |-> "goto", qid |-> targets, department |-> <<>>,
                  severity |-> <<>>, reason |-> "null"]
Opd == [action |-> "opd", qid |-> <<>>, department |-> <<>>,
        severity |-> <<>>, reason |-> "null"]
Terminate(depts, sevs, why) ==
    [action |-> "terminate", qid |-> <<>>, department |-> depts,
     severity |-> sevs, reason |-> why]

Option(id, label, action) == [id |-> id, label |-> label, action |-> action]

Predicate(qid, op, value) ==
    [qid |-> qid, hasField |-> FALSE, field |-> "", op |-> op, value |-> value]
FieldPredicate(qid, field, op, value) ==
    [qid |-> qid, hasField |-> TRUE, field |-> field, op |-> op, value |-> value]

Rule(when, then) == [when |-> when, then |-> then]

Question(qid, qtype, options, onSubmit, next, rules, default) ==
    [qid |-> qid, question |-> <<"text of", qid>>,
     question_type |-> qtype, options |-> options,
     on_submit |-> onSubmit, next |-> next, rules |-> rules,
     default |-> default]

\* currentQuestion = null
NoQuestion == Question("null", "null", <<>>, NoAction, NoAction, <<>>, NoAction)

----------------------------------------------------------------------------
(* evaluator.ts *)

NumCompare(op, a, v) ==
    IF a.nan \/ v.nan THEN FALSE
    ELSE CASE op = "lt" -> a.n < v.n
           [] op = "le" -> a.n <= v.n
           [] op = "gt" -> a.n > v.n
           [] OTHER     -> a.n >= v.n

Between(a, lo, hi) ==
    IF a.nan \/ lo.nan \/ hi.nan THEN FALSE
    ELSE a.n >= lo.n /\ a.n <= hi.n

\* Number(arr[i]) for the expected value of `between`: an element of a
\* list, a character of a text, undefined otherwise
BoundAt(value, i) ==
    IF value.k = "str"
    THEN IF Len(value.s) >= i THEN TextNumber(trim(<<value.s[i]>>)) ELSE NaN
    ELSE IF Len(value.l) >= i THEN ToNumber(value.l[i]) ELSE NaN

Contains(answer, value) ==
    IF answer.k = "list" THEN ListIncludes(answer.l, value)
    ELSE StrIncludes(ToStr(answer), ToStr(value))

\* compare(op, answer, value) for well-typed expected values
compare(op, answer, value) ==
    CASE op = "eq" -> StrictEq(answer, value)
      [] op = "ne" -> ~StrictEq(answer, value)
      [] op \in {"lt", "le", "gt", "ge"} ->
            NumCompare(op, ToNumber(answer), ToNumber(value))
      [] op = "between" ->
            Between(ToNumber(answer), BoundAt(value, 1), BoundAt(value, 2))
      [] op = "contains" -> Contains(answer, value)
      [] op = "not_contains" -> ~Contains(answer, value)
      [] op = "contains_any" ->
            \E i \in 1..Len(value.l) : Contains(answer, value.l[i])
      [] op = "contains_all" ->
            \A i \in 1..Len(value.l) : Contains(answer, value.l[i])
      \* new RegExp(String(value)).test(String(answer)), for a pattern of
      \* letters and digits only
      [] op = "matches" -> StrIncludes(ToStr(answer), ToStr(value))
      [] OTHER -> FALSE

\* patterns new RegExp rejects with a SyntaxError: a group left open or
\* closed without being opened, a character class left open, a quantifier
\* with nothing to repeat (patterns without backslashes)
CountOf(s, c) == Cardinality({i \in 1..Len(s) : s[i] = c})

Uncompilable(pattern) ==
    \/ CountOf(pattern, "(") # CountOf(pattern, ")")
    \/ CountOf(pattern, "[") > 0 /\ CountOf(pattern, "]") = 0
    \/ Len(pattern) > 0 /\ pattern[1] \in {"*", "+", "?"}

\* whether compare(op, answer, value) throws instead of returning: arr[0]
\* of null, vals.some / vals.every of a value that is no array, and the
\* RegExp constructor
compareRaises(op, answer, value) ==
    CASE op = "between" -> ~ToNumber(answer).nan /\ value.k = "null"
      [] op \in {"contains_any", "contains_all"} -> value.k # "list"
      [] op = "matches" -> Uncompilable(ToStr(value))
      [] OTHER -> FALSE

\* an evalPredicate that compares an answer that is missing
PredicateOnMissing(pred, answer) ==
    IF pred.hasField
    THEN IF answer.k = "obj"
         THEN compare(pred.op, Get(answer.o, pred.field), pred.value)
         ELSE FALSE
    ELSE compare(pred.op, answer, pred.value)

PredicateOn(pred, answer) ==
    IF answer.k = "null" THEN FALSE
    ELSE IF pred.hasField
         THEN IF answer.k = "obj"
              THEN compare(pred.op, Get(answer.o, pred.field), pred.value)
              ELSE FALSE
         ELSE compare(pred.op, answer, pred.value)

evalPredicate(pred, answers) == PredicateOn(pred, Get(answers, pred.qid))

\* the action of the option or the `then` of the rule at index i, the
\* fallback when i = 0
ActionAt(options, i, fallback) == IF i > 0 THEN options[i].action ELSE fallback
ThenAt(rules, i, fallback) == IF i > 0 THEN rules[i].then ELSE fallback

RuleMatches(rule, answers) ==
    \A i \in 1..Len(rule.when) : evalPredicate(rule.when[i], answers)

\* an evalConditional in which a later matching rule overrides an earlier
evalConditionalLastMatch(rules, defaultAction, answers) ==
    ThenAt(rules,
           LastOf({i \in 1..Len(rules) : RuleMatches(rules[i], answers)}),
           defaultAction)

evalConditional(rules, defaultAction, answers) ==
    ThenAt(rules,
           FirstOf({i \in 1..Len(rules) : RuleMatches(rules[i], answers)}),
           defaultAction)

GenderMatches(opt, genderLower) ==
    \/ toLowerCase(opt.id) = genderLower
    \/ (Len(opt.label) > 0 /\ toLowerCase(opt.label) = genderLower)

evalGenderFilter(options, gender) ==
    ActionAt(options,
             FirstOf({i \in 1..Len(options) :
                        GenderMatches(options[i], trim(toLowerCase(gender)))}),
             NoAction)

\* optId against /^(lt|lte|le|gt|gte|ge)_(\d+(?:\.\d+)?)$/: the operator is
\* the text before the first underscore, the threshold the text after it
AgeIdOps == {<<"l","t">>, <<"l","t","e">>, <<"l","e">>,
             <<"g","t">>, <<"g","t","e">>, <<"g","e">>}

AgeCond(ok, op, thr) ==
    [ok |-> ok /\ thr.ok, op |-> op, num |-> thr.num, den |-> thr.den]

AgeIdAt(optId, u) ==
    AgeCond(u > 0 /\ SubSeq(optId, 1, u - 1) \in AgeIdOps,
            SubSeq(optId, 1, u - 1),
            ParseDecimal(SubSeq(optId, u + 1, Len(optId))))

ParseAgeId(optId) ==
    CHOOSE r \in {AgeIdAt(id, FirstOf({i \in 1..Len(id) : id[i] = "_"})) :
                  id \in {optId}} : TRUE

\* trimmed label against /^([<>]=?)\s*(\d+(?:\.\d+)?)$/
AgeLabelAt(s, opLen) ==
    AgeCond(Len(s) >= 1 /\ s[1] \in {"<", ">"},
            IF Len(s) >= opLen THEN SubSeq(s, 1, opLen) ELSE <<>>,
            ParseDecimal(trim(SubSeq(s, opLen + 1, Len(s)))))

ParseAgeLabel(label) ==
    CHOOSE r \in {AgeLabelAt(s, IF Len(s) >= 2 /\ s[2] = "=" THEN 2 ELSE 1) :
                  s \in {trim(label)}} : TRUE

\* age `op` num/den
AgeHolds(op, age, num, den) ==
    CASE op \in {<<"l","t">>, <<"<">>} -> age * den < num
      [] op \in {<<"l","e">>, <<"l","t","e">>, <<"<","=">>} -> age * den <= num
      [] op \in {<<"g","t">>, <<">">>} -> age * den > num
      [] op \in {<<"g","e">>, <<"g","t","e">>, <<">","=">>} -> age * den >= num
      [] OTHER -> FALSE

\* whether an option is returned by the loop: by its id when the id has
\* the structured shape, else by its label
AgeOptionHolds(idm, lbm, age) ==
    IF idm.ok THEN AgeHolds(idm.op, age, idm.num, idm.den)
    ELSE lbm.ok /\ AgeHolds(lbm.op, age, lbm.num, lbm.den)

AgeOptionHit(opt, age) ==
    \E idm \in {ParseAgeId(toLowerCase(opt.id))},
       lbm \in {ParseAgeLabel(opt.label)} :
        AgeOptionHolds(idm, lbm, age)

\* an evalAgeFilter that returns nothing when no condition holds
evalAgeFilterWithoutFallback(options, age) ==
    IF ~age.known THEN NoAction
    ELSE ActionAt(options,
                  FirstOf({i \in 1..Len(options) :
                             AgeOptionHit(options[i], age.n)}),
                  NoAction)

\* age is [known, n]; known = FALSE stands for null
evalAgeFilter(options, age) ==
    CHOOSE r \in {IF ~a.known THEN NoAction
                  ELSE ActionAt(opts,
                                FirstOf({i \in 1..Len(opts) :
                                           AgeOptionHit(opts[i], a.n)}),
                                IF Len(opts) > 0 THEN opts[Len(opts)].action
                                ELSE NoAction) :
                  opts \in {options}, a \in {age}} : TRUE

----------------------------------------------------------------------------
(* Rule data served to the simulator (SimulatorDataResponse) *)

s_yes    == <<"y","e","s">>
s_no     == <<"n","o">>
s_er     == <<"e","r">>
s_skip   == <<"s","k","i","p">>
s_a      == <<"a">>
s_b      == <<"b">>
s_text   == <<"d","u","l","l">>
s_male   == <<"m","a","l","e">>
s_female == <<"f","e","m","a","l","e">>
s_Male   == <<"M","a","l","e">>
s_Female == <<"F","e","m","a","l","e">>
s_femaleSp == <<" ","f","e","m","a","l","e"," ">>
s_Other  == <<"O","t","h","e","r">>
s_lt_15  == <<"l","t","_","1","5">>
s_gte_15 == <<"g","t","e","_","1","5">>
s_ltLabel  == <<"<","1","5">>
s_gteLabel == <<">","=","1","5">>

\* dates of birth: one day short of 15 years, exactly 15 years, an adult,
\* and a text that is no date
dob14    == <<"2","0","1","1","-","0","6","-","1","6">>
dob15    == <<"2","0","1","1","-","0","6","-","1","5">>
dobAdult == <<"1","9","9","0","-","0","1","-","0","1">>
dobBad   == <<"n","/","a">>

\* the day `new Date()` returns
Today == [y |-> 2026, m |-> 6, d |-> 15]

ErItem(qid, severity, minSeverity, department) ==
    [qid |-> qid, severity |-> severity, min_severity |-> minSeverity,
     department |-> department]

\* "" for an absent severity / min_severity object
RuleData ==
    [er_critical |-> <<"emer_critical_001", "emer_critical_002",
                       "emer_critical_003">>,
     er_adult |->
        [Headache |-> <<ErItem("ea_h_1", "", "sev002", <<"dept004", "dept001">>),
                        ErItem("ea_h_2", "sev001", "", <<>>)>>,
         Fever    |-> <<ErItem("ea_f_1", "", "sev004", <<"dept005">>)>>],
     er_pediatric |->
        [Headache |-> <<ErItem("ep_h_1", "sev002", "", <<"dept003">>),
                        ErItem("ep_h_2", "", "sev001", <<>>)>>,
         Fever    |-> <<ErItem("ep_f_1", "sev003", "", <<"dept009">>)>>],
     oldcarts |->
        [Headache |-> <<
            Question("h_o_1", "single_select",
                <<Option(s_yes, s_yes, Goto(<<"h_o_2", "h_o_2", "h_o_3">>)),
                  Option(s_no, s_no, Goto(<<"h_o_3">>)),
                  Option(s_er, s_er,
                         Terminate(<<"dept002">>, <<"sev003">>, "red flag")),
                  Option(s_skip, s_skip, NoAction)>>,
                NoAction, NoAction, <<>>, NoAction),
            Question("h_o_2", "free_text", <<>>,
                Goto(<<"h_o_1", "h_o_4">>), NoAction, <<>>, NoAction),
            Question("h_o_3", "age_filter",
                <<Option(s_lt_15, s_ltLabel, Goto(<<"h_o_4">>)),
                  Option(s_gte_15, s_gteLabel, Goto(<<"h_o_5">>))>>,
                NoAction, NoAction, <<>>, NoAction),
            Question("h_o_4", "multi_select",
                <<Option(s_a, s_a, NoAction), Option(s_b, s_b, NoAction)>>,
                NoAction, Opd, <<>>, NoAction),
            Question("h_o_5", "number_range", <<>>,
                NoAction, NoAction, <<>>, NoAction)>>,
         Cough |-> <<
            Question("c_o_1", "conditional", <<>>, NoAction, NoAction,
                <<Rule(<<Predicate("c_o_2", "eq", StrV(s_yes))>>,
                       Goto(<<"c_o_2">>))>>,
                Opd),
            Question("c_o_2", "free_text", <<>>,
                NoAction, NoAction, <<>>, NoAction)>>,
         Rash |-> <<
            Question("r_o_1", "gender_filter",
                <<Option(s_male, s_Male, Goto(<<"r_o_2">>))>>,
                NoAction, NoAction, <<>>, NoAction),
            Question("r_o_2", "free_text", <<>>,
                NoAction, NoAction, <<>>, NoAction)>>,
         Vertigo |-> <<
            Question("v_o_1", "free_text", <<>>,
                Goto(<<"v_o_2", "v_o_3", "v_o_4">>), NoAction, <<>>, NoAction),
            Question("v_o_2", "conditional", <<>>, NoAction, NoAction,
                <<Rule(<<Predicate("v_o_1", "eq", StrV(s_yes))>>,
                       Goto(<<"v_o_5">>))>>,
                NoAction),
            Question("v_o_3", "age_filter",
                <<Option(s_lt_15, s_ltLabel, Goto(<<"v_o_5">>)),
                  Option(s_gte_15, s_gteLabel, NoAction)>>,
                NoAction, NoAction, <<>>, NoAction),
            Question("v_o_4", "gender_filter",
                <<Option(s_male, s_Male, NoAction),
                  Option(s_female, s_Female, Goto(<<"v_o_5">>))>>,
                NoAction, NoAction, <<>>, NoAction),
            Question("v_o_5", "free_text", <<>>,
                NoAction, NoAction, <<>>, NoAction)>>],
     opd |->
        [Headache |-> <<
            Question("h_p_1", "gender_filter",
                <<Option(s_male, s_Male, Goto(<<"h_p_2">>)),
                  Option(s_female, s_Female, Goto(<<"h_p_3">>))>>,
                NoAction, NoAction, <<>>, NoAction),
            Question("h_p_2", "conditional", <<>>, NoAction, NoAction,
                <<Rule(<<Predicate("h_o_1", "eq", StrV(s_yes))>>,
                       Terminate(<<"dept001">>, <<"sev001">>, "recurrent")),
                  Rule(<<Predicate("h_o_1", "ne", StrV(s_er))>>,
                       Goto(<<"h_p_3", "h_p_4">>))>>,
                Goto(<<"h_p_4">>)),
            Question("h_p_3", "single_select",
                <<Option(s_a, s_a, Terminate(<<"dept004", "dept001">>, <<>>, "null")),
                  Option(s_b, s_b, Goto(<<"h_p_4">>))>>,
                NoAction, NoAction, <<>>, NoAction),
            Question("h_p_4", "free_text", <<>>,
                NoAction, NoAction, <<>>, NoAction)>>,
         Cough |-> <<
            Question("c_p_1", "single_select",
                <<Option(s_a, s_a, Opd),
                  Option(s_b, s_b,
                         Terminate(<<"dept001">>, <<"sev001">>, "cough"))>>,
                NoAction, NoAction, <<>>, NoAction)>>,
         Rash |-> <<
            Question("r_p_1", "free_text", <<>>,
                NoAction, NoAction, <<>>, NoAction)>>,
         Nausea |-> <<
            Question("n_p_1", "conditional", <<>>, NoAction, NoAction,
                <<>>, Opd)>>],
     departments |-> <<[id |-> "dept001", name |-> "General Medicine"],
                       [id |-> "dept002", name |-> "Emergency Medicine"],
                       [id |-> "dept004", name |-> "Neurology"]>>,
     severity_levels |-> <<[id |-> "sev001", name |-> "Observe at Home"],
                           [id |-> "sev002", name |-> "Visit Hospital"],
                           [id |-> "sev003", name |-> "Emergency"]>>]

\* the symptoms the symptom selector offers
Symptoms == {"Headache", "Fever", "Cough", "Rash", "Vertigo"}

\* ruleData[source]?.[symptom] ?? []
SourceList(source, symptom) ==
    IF symptom \in DOMAIN RuleData[source] THEN RuleData[source][symptom]
    ELSE <<>>

\* deptMap.get(id) ?? id and sevMap.get(id) ?? id
NameOf(entries, id) ==
    IF \E i \in 1..Len(entries) : entries[i].id = id
    THEN entries[CHOOSE i \in 1..Len(entries) :
                    entries[i].id = id
                    /\ \A j \in (i+1)..Len(entries) : entries[j].id # id].name
    ELSE id

----------------------------------------------------------------------------
(* engine.ts *)

AUTO_EVAL_TYPES == {"gender_filter", "age_filter", "conditional"}
DEFAULT_ER_SEVERITY == "sev003"
DEFAULT_ER_DEPARTMENT == "dept002"
PEDIATRIC_AGE_THRESHOLD == 15

NullAge == [known |-> FALSE, n |-> 0]
NullSeverity == [id |-> "null", name |-> "null"]
NoResult == [type |-> "null", departments |-> <<>>, severity |-> NullSeverity,
             reason |-> [text |-> "null", qids |-> <<>>]]

\* an ISO date YYYY-MM-DD read by new Date(dob), in the calendar of a time
\* zone at or east of UTC
ParseDate(s) ==
    IF /\ Len(s) = 10
       /\ s[5] = "-" /\ s[8] = "-"
       /\ AllDigits(SubSeq(s, 1, 4)) /\ AllDigits(SubSeq(s, 6, 7))
       /\ AllDigits(SubSeq(s, 9, 10))
       /\ DigitsValue(SubSeq(s, 6, 7)) \in 1..12
       /\ DigitsValue(SubSeq(s, 9, 10)) \in 1..31
    THEN [ok |-> TRUE, y |-> DigitsValue(SubSeq(s, 1, 4)),
          m |-> DigitsValue(SubSeq(s, 6, 7)),
          d |-> DigitsValue(SubSeq(s, 9, 10))]
    ELSE [ok |-> FALSE, y |-> 0, m |-> 0, d |-> 0]

\* dob is the value of demographics.date_of_birth (NullV when undefined)
computeAge(dob) ==
    IF dob.k # "str" \/ dob.s = <<>> THEN NullAge
    ELSE LET dobDate == ParseDate(dob.s)
             age == Today.y - dobDate.y
             monthDiff == Today.m - dobDate.m
         IN IF ~dobDate.ok THEN NullAge
            ELSE IF monthDiff < 0 \/ (monthDiff = 0 /\ Today.d < dobDate.d)
                 THEN [known |-> TRUE, n |-> age - 1]
                 ELSE [known |-> TRUE, n |-> age]

\* qMap.get(qid) over buildQuestionMap(questions): the last question
\* carrying the qid, NoQuestion when there is none
QuestionOf(questions, qid) ==
    IF \E i \in 1..Len(questions) : questions[i].qid = qid
    THEN questions[CHOOSE i \in 1..Len(questions) :
                      questions[i].qid = qid
                      /\ \A j \in (i+1)..Len(questions) : questions[j].qid # qid]
    ELSE NoQuestion

\* "" stands for null
getFirstQid(source, symptom) ==
    LET questions == SourceList(source, symptom)
    IN IF Len(questions) = 0 THEN "" ELSE questions[1].qid

\* a determineAction that takes the action of the first selected option of
\* a multi-select question
determineActionOfSelection(question, value) ==
    CASE question.question_type \in {"single_select", "image_single_select"} ->
            ActionAt(question.options,
                     FirstOf({i \in 1..Len(question.options) :
                                StrictEq(StrV(question.options[i].id), value)}),
                     NoAction)
      [] question.question_type \in {"multi_select", "image_multi_select"} ->
            ActionAt(question.options,
                     FirstOf({i \in 1..Len(question.options) :
                                ListIncludes(value.l,
                                             StrV(question.options[i].id))}),
                     NoAction)
      [] question.question_type
            \in {"free_text", "free_text_with_fields", "number_range"} ->
            question.on_submit
      [] OTHER -> NoAction

determineAction(question, value) ==
    CASE question.question_type \in {"single_select", "image_single_select"} ->
            ActionAt(question.options,
                     FirstOf({i \in 1..Len(question.options) :
                                StrictEq(StrV(question.options[i].id), value)}),
                     NoAction)
      [] question.question_type \in {"multi_select", "image_multi_select"} ->
            question.next
      [] question.question_type
            \in {"free_text", "free_text_with_fields", "number_range"} ->
            question.on_submit
      [] OTHER -> NoAction

\* a processAction that puts the new targets behind the queue
processActionAppending(action, pendingList, answers, currentPhase) ==
    IF action.action = "goto"
    THEN [type |-> "continue", termination |-> NoResult,
          pending |-> pendingList \o
                      SelectSeq(action.qid,
                                LAMBDA q : q \notin DOMAIN answers
                                           /\ q \notin Range(pendingList))]
    ELSE [type |-> "continue", termination |-> NoResult,
          pending |-> pendingList]

\* a processAction whose terminations are of type "terminated" in every
\* phase
processActionTerminatedOnly(action, pendingList, answers, currentPhase) ==
    CASE action.action = "goto" ->
            LET newQids == SelectSeq(action.qid,
                              LAMBDA q : q \notin DOMAIN answers
                                         /\ q \notin Range(pendingList))
            IN [type |-> "continue", termination |-> NoResult,
                pending |-> newQids \o pendingList]
      [] action.action = "opd" ->
            [type |-> "advance_to_opd", termination |-> NoResult,
             pending |-> pendingList]
      [] action.action = "terminate" ->
            LET sevIds == action.severity
            IN [type |-> "terminate",
                termination |->
                   [type |-> "terminated",
                    departments |->
                       [i \in 1..Len(action.department) |->
                          [id |-> action.department[i],
                           name |-> NameOf(RuleData.departments,
                                           action.department[i])]],
                    severity |->
                       IF Len(sevIds) > 0
                       THEN [id |-> sevIds[1],
                             name |-> NameOf(RuleData.severity_levels, sevIds[1])]
                       ELSE NullSeverity,
                    reason |-> [text |-> action.reason, qids |-> <<>>]],
                pending |-> pendingList]
      [] OTHER -> [type |-> "continue", termination |-> NoResult,
                   pending |-> pendingList]

\* the ActionResult together with the pending list as the call leaves it
processAction(action, pendingList, answers, currentPhase) ==
    CASE action.action = "goto" ->
            LET newQids == SelectSeq(action.qid,
                              LAMBDA q : q \notin DOMAIN answers
                                         /\ q \notin Range(pendingList))
            IN [type |-> "continue", termination |-> NoResult,
                pending |-> newQids \o pendingList]
      [] action.action = "opd" ->
            [type |-> "advance_to_opd", termination |-> NoResult,
             pending |-> pendingList]
      [] action.action = "terminate" ->
            LET sevIds == action.severity
            IN [type |-> "terminate",
                termination |->
                   [type |-> IF currentPhase < 5 THEN "terminated"
                             ELSE "completed",
                    departments |->
                       [i \in 1..Len(action.department) |->
                          [id |-> action.department[i],
                           name |-> NameOf(RuleData.departments,
                                           action.department[i])]],
                    severity |->
                       IF Len(sevIds) > 0
                       THEN [id |-> sevIds[1],
                             name |-> NameOf(RuleData.severity_levels, sevIds[1])]
                       ELSE NullSeverity,
                    reason |-> [text |-> action.reason, qids |-> <<>>]],
                pending |-> pendingList]
      [] OTHER -> [type |-> "continue", termination |-> NoResult,
                   pending |-> pendingList]

\* typeof demographics.age === "number" ? demographics.age
\*                                      : computeAge(demographics.date_of_birth)
FilterAge(demos) ==
    IF Get(demos, "age").k = "num" THEN [known |-> TRUE, n |-> demos["age"].n]
    ELSE computeAge(Get(demos, "date_of_birth"))

\* String(demographics.gender ?? "")
GenderText(demos) ==
    IF Get(demos, "gender").k = "null" THEN <<>> ELSE ToStr(demos["gender"])

autoEvaluate(question, answers, demos) ==
    CASE question.question_type = "conditional" ->
            evalConditional(question.rules, question.default, answers)
      [] question.question_type = "age_filter" ->
            evalAgeFilter(question.options, FilterAge(demos))
      [] question.question_type = "gender_filter" ->
            evalGenderFilter(question.options, GenderText(demos))
      [] OTHER -> NoAction

\* the while loop of resolveNext over its private queue.  One iteration is
\* LoopStep: it shifts qid off the queue and either ends the loop with a
\* result or leaves the queue for the next iteration (kind "continue"); an
\* iteration that auto-evaluates goes on in LoopAuto and, once the action
\* has been processed, in LoopAction
Resolved(kind, question, termination, pendingList) ==
    [kind |-> kind, question |-> question, termination |-> termination,
     pending |-> pendingList]

LoopAction(res) ==
    IF res.type = "terminate"
    THEN Resolved("terminate", NoQuestion, res.termination, res.pending)
    ELSE IF res.type = "advance_to_opd"
    THEN Resolved("advance_to_opd", NoQuestion, NoResult, res.pending)
    ELSE Resolved("continue", NoQuestion, NoResult, res.pending)

\* an iteration that ends the loop when the evaluation gives no action
LoopAutoEndingOnNone(action, rest, answers, currentPhase) ==
    IF action = NoAction
    THEN Resolved("exhausted", NoQuestion, NoResult, rest)
    ELSE LoopAction(processAction(action, rest, answers, currentPhase))

LoopAuto(action, rest, answers, currentPhase) ==
    IF action = NoAction
    THEN Resolved("continue", NoQuestion, NoResult, rest)
    ELSE LoopAction(processAction(action, rest, answers, currentPhase))

\* an iteration that leaves an answered qid at the head of the queue
LoopStepKeepingAnswered(qid, question, rest, answers, demoWithAge, currentPhase) ==
    IF qid \in DOMAIN answers
    THEN Resolved("continue", NoQuestion, NoResult, <<qid>> \o rest)
    ELSE IF question = NoQuestion
    THEN Resolved("continue", NoQuestion, NoResult, rest)
    ELSE IF question.question_type \in AUTO_EVAL_TYPES
    THEN LoopAuto(autoEvaluate(question, answers, demoWithAge), rest,
                  answers, currentPhase)
    ELSE Resolved("question", question, NoResult, rest)

\* an iteration that shows every question it finds
LoopStepShowingAll(qid, question, rest, answers, demoWithAge, currentPhase) ==
    IF qid \in DOMAIN answers
    THEN Resolved("continue", NoQuestion, NoResult, rest)
    ELSE IF question = NoQuestion
    THEN Resolved("continue", NoQuestion, NoResult, rest)
    ELSE Resolved("question", question, NoResult, rest)

LoopStep(qid, question, rest, answers, demoWithAge, currentPhase) ==
    IF qid \in DOMAIN answers
    THEN Resolved("continue", NoQuestion, NoResult, rest)
    ELSE IF question = NoQuestion
    THEN Resolved("continue", NoQuestion, NoResult, rest)
    ELSE IF question.question_type \in AUTO_EVAL_TYPES
    THEN \* const action = autoEvaluate(question, answers, demoWithAge)
         CHOOSE r \in {LoopAuto(action, rest, answers, currentPhase) :
                          action \in {autoEvaluate(question, answers,
                                                   demoWithAge)}} : TRUE
    ELSE Resolved("question", question, NoResult, rest)

RECURSIVE ResolveLoop(_, _, _, _, _)

\* while (queue.length > 0) after an iteration
LoopNext(step, questions, answers, demoWithAge, currentPhase) ==
    IF step.kind = "continue"
    THEN ResolveLoop(step.pending, questions, answers, demoWithAge,
                     currentPhase)
    ELSE step

ResolveLoop(queue, questions, answers, demoWithAge, currentPhase) ==
    IF Len(queue) = 0
    THEN Resolved("exhausted", NoQuestion, NoResult, queue)
    ELSE \* one iteration, then the loop test on what it left
         CHOOSE r \in
             {LoopNext(step, questions, answers, demoWithAge, currentPhase) :
                 step \in {LoopStep(Head(queue),
                                    QuestionOf(questions, Head(queue)),
                                    Tail(queue), answers, demoWithAge,
                                    currentPhase)}} : TRUE

\* demoWithAge: the demographics with the computed age added when they
\* carry no age and the date of birth gives one
WithAge(demos, age) ==
    IF "age" \notin DOMAIN demos /\ age.known
    THEN Spread(demos, [x \in {"age"} |-> NumV(age.n)])
    ELSE demos

resolveNext(source, symptom, pendingList, answers, demos, currentPhase) ==
    ResolveLoop(pendingList, SourceList(source, symptom), answers,
                WithAge(demos, computeAge(Get(demos, "date_of_birth"))),
                currentPhase)

\* the checklists of the symptoms in order, one after the other
RECURSIVE ChecklistItems(_, _)
ChecklistItems(source, symptoms) ==
    IF Len(symptoms) = 0 THEN <<>>
    ELSE (IF Head(symptoms) \in DOMAIN source THEN source[Head(symptoms)]
          ELSE <<>>) \o ChecklistItems(source, Tail(symptoms))

\* the shown items with the threshold age itself counted as pediatric
getErChecklistItemsInclusive(symptoms, age) ==
    LET pediatric == age.known /\ age.n <= PEDIATRIC_AGE_THRESHOLD
        source == IF pediatric THEN RuleData.er_pediatric ELSE RuleData.er_adult
        items == ChecklistItems(source, symptoms)
    IN [i \in 1..Len(items) |-> items[i].qid]

\* the qids of the items the phase-3 form shows, in order
getErChecklistItems(symptoms, age) ==
    LET pediatric == age.known /\ age.n < PEDIATRIC_AGE_THRESHOLD
        source == IF pediatric THEN RuleData.er_pediatric ELSE RuleData.er_adult
        items == ChecklistItems(source, symptoms)
    IN [i \in 1..Len(items) |-> items[i].qid]

\* the result built from the first positive item
ChecklistResult(item, pediatric) ==
    LET sevField == IF pediatric THEN item.severity ELSE item.min_severity
        sevId == IF sevField # "" THEN sevField ELSE DEFAULT_ER_SEVERITY
        deptId == IF Len(item.department) > 0 THEN item.department[1]
                  ELSE DEFAULT_ER_DEPARTMENT
    IN [type |-> "terminated",
        departments |-> <<[id |-> deptId,
                           name |-> NameOf(RuleData.departments, deptId)]>>,
        severity |-> [id |-> sevId,
                      name |-> NameOf(RuleData.severity_levels, sevId)],
        reason |-> [text |-> "ER checklist positive: ", qids |-> <<item.qid>>]]

\* the result built from the last positive item
LastPositive(items, flags, pediatric) ==
    LET i == LastOf({k \in 1..Len(items) :
                        items[k].qid \in DOMAIN flags
                        /\ flags[items[k].qid] = TRUE})
    IN IF i = 0 THEN NoResult ELSE ChecklistResult(items[i], pediatric)

FirstPositive(items, flags, pediatric) ==
    LET i == FirstOf({k \in 1..Len(items) :
                        items[k].qid \in DOMAIN flags
                        /\ flags[items[k].qid] = TRUE})
    IN IF i = 0 THEN NoResult ELSE ChecklistResult(items[i], pediatric)

resolveErChecklistTermination(flags, symptoms, age) ==
    LET pediatric == age.known /\ age.n < PEDIATRIC_AGE_THRESHOLD
        source == IF pediatric THEN RuleData.er_pediatric ELSE RuleData.er_adult
    IN FirstPositive(ChecklistItems(source, symptoms), flags, pediatric)

\* a critical termination that names every critical item in its reason
buildErCriticalTerminationNamingAll(positiveQids) ==
    [type |-> "terminated",
     departments |-> <<[id |-> DEFAULT_ER_DEPARTMENT,
                        name |-> NameOf(RuleData.departments,
                                        DEFAULT_ER_DEPARTMENT)]>>,
     severity |-> [id |-> DEFAULT_ER_SEVERITY,
                   name |-> NameOf(RuleData.severity_levels, DEFAULT_ER_SEVERITY)],
     reason |-> [text |-> "ER critical positive: ",
                 qids |-> RuleData.er_critical]]

buildErCriticalTermination(positiveQids) ==
    [type |-> "terminated",
     departments |-> <<[id |-> DEFAULT_ER_DEPARTMENT,
                        name |-> NameOf(RuleData.departments,
                                        DEFAULT_ER_DEPARTMENT)]>>,
     severity |-> [id |-> DEFAULT_ER_SEVERITY,
                   name |-> NameOf(RuleData.severity_levels, DEFAULT_ER_SEVERITY)],
     reason |-> [text |-> "ER critical positive: ", qids |-> positiveQids]]

----------------------------------------------------------------------------
(* useSimulator.ts: the session state, its history and the text overrides *)

CompletedResult ==
    [type |-> "completed", departments |-> <<>>, severity |-> NullSeverity,
     reason |-> [text |-> "All phases completed without explicit termination",
                 qids |-> <<>>]]

\* the state fields the setters of one call write, starting from the
\* values of the render the callback closed over
Live == [phase |-> phase, demographics |-> demographics,
         allAnswers |-> allAnswers, primarySymptom |-> primarySymptom,
         secondarySymptoms |-> secondarySymptoms,
         erCriticalFlags |-> erCriticalFlags,
         erChecklistFlags |-> erChecklistFlags, pending |-> pending,
         currentQuestion |-> currentQuestion, terminated |-> terminated,
         result |-> result]

\* the state after the call's setters have been applied
Commit(u) ==
    /\ phase' = u.phase
    /\ demographics' = u.demographics
    /\ allAnswers' = u.allAnswers
    /\ primarySymptom' = u.primarySymptom
    /\ secondarySymptoms' = u.secondarySymptoms
    /\ erCriticalFlags' = u.erCriticalFlags
    /\ erChecklistFlags' = u.erChecklistFlags
    /\ pending' = u.pending
    /\ currentQuestion' = u.currentQuestion
    /\ terminated' = u.terminated
    /\ result' = u.result

snapshot(label, answerValue) ==
    [phase |-> phase, demographics |-> demographics,
     allAnswers |-> allAnswers, primarySymptom |-> primarySymptom,
     secondarySymptoms |-> secondarySymptoms,
     erCriticalFlags |-> erCriticalFlags,
     erChecklistFlags |-> erChecklistFlags, pending |-> pending,
     currentQuestion |-> currentQuestion, label |-> label,
     answerValue |-> answerValue]

\* a restore that leaves the pending list as the live state has it
restoreKeepingPending(u, entry) ==
    [u EXCEPT !.phase = entry.phase,
              !.demographics = entry.demographics,
              !.allAnswers = entry.allAnswers,
              !.primarySymptom = entry.primarySymptom,
              !.secondarySymptoms = entry.secondarySymptoms,
              !.erCriticalFlags = entry.erCriticalFlags,
              !.erChecklistFlags = entry.erChecklistFlags,
              !.currentQuestion = entry.currentQuestion,
              !.terminated = FALSE,
              !.result = NoResult]

\* a restore that leaves terminated and result as the live state has them
restoreLeavingTerminated(u, entry) ==
    [u EXCEPT !.phase = entry.phase,
              !.demographics = entry.demographics,
              !.allAnswers = entry.allAnswers,
              !.primarySymptom = entry.primarySymptom,
              !.secondarySymptoms = entry.secondarySymptoms,
              !.erCriticalFlags = entry.erCriticalFlags,
              !.erChecklistFlags = entry.erChecklistFlags,
              !.pending = entry.pending,
              !.currentQuestion = entry.currentQuestion]

restore(u, entry) ==
    [u EXCEPT !.phase = entry.phase,
              !.demographics = entry.demographics,
              !.allAnswers = entry.allAnswers,
              !.primarySymptom = entry.primarySymptom,
              !.secondarySymptoms = entry.secondarySymptoms,
              !.erCriticalFlags = entry.erCriticalFlags,
              !.erChecklistFlags = entry.erChecklistFlags,
              !.pending = entry.pending,
              !.currentQuestion = entry.currentQuestion,
              !.terminated = FALSE,
              !.result = NoResult]

RECURSIVE enterSequentialPhase(_, _, _, _, _)

\* an entry that keeps the stored queue behind the resolved one
EnterResolvedCarrying(u, resolved, nextPhase, symptom, answers, demos) ==
    CASE resolved.kind = "question" ->
            [u EXCEPT !.phase = nextPhase,
                      !.currentQuestion = resolved.question,
                      !.pending = resolved.pending \o u.pending]
      [] resolved.kind = "terminate" ->
            [u EXCEPT !.phase = nextPhase, !.terminated = TRUE,
                      !.result = resolved.termination,
                      !.pending = resolved.pending]
      [] resolved.kind = "advance_to_opd" \/ nextPhase = 4 ->
            enterSequentialPhase([u EXCEPT !.phase = nextPhase], 5, symptom,
                                 answers, demos)
      [] OTHER ->
            [u EXCEPT !.phase = nextPhase, !.terminated = TRUE,
                      !.result = CompletedResult]

\* the setters called so far, marked as those of a call that ended in a
\* RangeError
Overflowed(u) == u @@ [raised |-> TRUE]

\* enterSequentialPhase from setPhase(nextPhase) on, resolved being what
\* resolveNext returned for the first qid.  An advance_to_opd result found
\* while entering phase 5 calls enterSequentialPhase(5, ...) with the
\* arguments of this activation, whose resolveNext gives the same result:
\* the activations repeat, each calling setPhase(5), until the call stack
\* is exhausted
EnterResolved(u, resolved, nextPhase, symptom, answers, demos) ==
    CASE resolved.kind = "question" ->
            [u EXCEPT !.phase = nextPhase,
                      !.currentQuestion = resolved.question,
                      !.pending = resolved.pending]
      [] resolved.kind = "terminate" ->
            [u EXCEPT !.phase = nextPhase, !.terminated = TRUE,
                      !.result = resolved.termination,
                      !.pending = resolved.pending]
      [] resolved.kind = "advance_to_opd" /\ nextPhase = 5 ->
            Overflowed([u EXCEPT !.phase = 5])
      [] resolved.kind = "advance_to_opd" \/ nextPhase = 4 ->
            enterSequentialPhase([u EXCEPT !.phase = nextPhase], 5, symptom,
                                 answers, demos)
      [] OTHER ->
            [u EXCEPT !.phase = nextPhase, !.terminated = TRUE,
                      !.result = CompletedResult]

\* an entry that leaves the session open when OPD has no question
enterSequentialPhaseLeavingOpen(u, nextPhase, symptom, answers, demos) ==
    IF getFirstQid(IF nextPhase = 4 THEN "oldcarts" ELSE "opd", symptom) = ""
    THEN IF nextPhase = 4
         THEN enterSequentialPhase(u, 5, symptom, answers, demos)
         ELSE [u EXCEPT !.phase = 5]
    ELSE EnterResolved(u,
            resolveNext(IF nextPhase = 4 THEN "oldcarts" ELSE "opd", symptom,
                        <<getFirstQid(IF nextPhase = 4 THEN "oldcarts"
                                      ELSE "opd", symptom)>>,
                        answers, demos, nextPhase),
            nextPhase, symptom, answers, demos)

enterSequentialPhase(u, nextPhase, symptom, answers, demos) ==
    IF getFirstQid(IF nextPhase = 4 THEN "oldcarts" ELSE "opd", symptom) = ""
    THEN IF nextPhase = 4
         THEN enterSequentialPhase(u, 5, symptom, answers, demos)
         ELSE [u EXCEPT !.phase = 5, !.terminated = TRUE,
                        !.result = CompletedResult]
    ELSE \* const resolved = resolveNext(source, symptom, [firstQid], ...)
         CHOOSE r \in
             {EnterResolved(u, resolved, nextPhase, symptom, answers, demos) :
                 resolved \in
                     {resolveNext(IF nextPhase = 4 THEN "oldcarts" ELSE "opd",
                                  symptom,
                                  <<getFirstQid(IF nextPhase = 4
                                                THEN "oldcarts" ELSE "opd",
                                                symptom)>>,
                                  answers, demos, nextPhase)}} : TRUE

\* a handler that completes the session whenever the queue is exhausted
handleResolveResultCompleting(u, resolved, answers) ==
    CASE resolved.kind = "question" ->
            [u EXCEPT !.currentQuestion = resolved.question,
                      !.pending = resolved.pending]
      [] resolved.kind = "terminate" ->
            [u EXCEPT !.terminated = TRUE, !.result = resolved.termination,
                      !.pending = resolved.pending]
      [] resolved.kind = "advance_to_opd" ->
            enterSequentialPhase(u, 5, primarySymptom, answers, demographics)
      [] OTHER ->
            [u EXCEPT !.terminated = TRUE, !.result = CompletedResult]

handleResolveResult(u, resolved, answers) ==
    CASE resolved.kind = "question" ->
            [u EXCEPT !.currentQuestion = resolved.question,
                      !.pending = resolved.pending]
      [] resolved.kind = "terminate" ->
            [u EXCEPT !.terminated = TRUE, !.result = resolved.termination,
                      !.pending = resolved.pending]
      [] resolved.kind = "advance_to_opd" \/ phase = 4 ->
            enterSequentialPhase(u, 5, primarySymptom, answers, demographics)
      [] OTHER ->
            [u EXCEPT !.terminated = TRUE, !.result = CompletedResult]

----------------------------------------------------------------------------
(* What the forms of SimulatorTab submit *)

DemographicInputs ==
    { [date_of_birth |-> StrV(dob14), gender |-> StrV(s_Male)],
      [date_of_birth |-> StrV(dob15), gender |-> StrV(s_femaleSp)],
      [age |-> NumV(10), gender |-> StrV(s_male)],
      EmptyMap,
      [date_of_birth |-> StrV(dobBad), gender |-> StrV(s_Other)],
      [date_of_birth |-> StrV(dobAdult), age |-> NumV(36),
       gender |-> StrV(s_Female)] }

ErCriticalInputs == [Range(RuleData.er_critical) -> BOOLEAN]

\* lists of distinct symptoms
RECURSIVE DistinctSeqs(_, _)
DistinctSeqs(S, n) ==
    IF n = 0 THEN {<<>>}
    ELSE LET shorter == DistinctSeqs(S, n - 1)
         IN shorter \cup
            {Append(s, x) : s \in {r \in shorter : Len(r) = n - 1}, x \in S}

SymptomInputs ==
    UNION {{[primary_symptom |-> p, secondary_symptoms |-> s] :
               s \in {r \in DistinctSeqs(Symptoms, MaxSecondary) :
                         /\ \A i \in 1..Len(r) : r[i] # p
                         /\ \A i, j \in 1..Len(r) : i # j => r[i] # r[j]}} :
           p \in Symptoms}

\* the items ErChecklistForm shows: SimulatorTab passes it the symptoms and
\* computeAge(demographics.date_of_birth)
ShownChecklist ==
    getErChecklistItems(<<primarySymptom>> \o secondarySymptoms,
                        computeAge(Get(demographics, "date_of_birth")))

ErChecklistInputs == [Range(ShownChecklist) -> BOOLEAN]

\* what SequentialQuestion submits for a question
AnswerInputs(question) ==
    LET qt == question.question_type
    IN CASE qt \in {"single_select", "image_single_select"} ->
                {StrV(question.options[i].id) : i \in 1..Len(question.options)}
         [] qt \in {"multi_select", "image_multi_select"} ->
                {ListV(<<StrV(question.options[1].id)>>),
                 ListV([i \in 1..Len(question.options) |->
                            StrV(question.options[i].id)])}
         [] qt = "number_range" -> {NumV(3)}
         [] OTHER -> {StrV(s_text)}

----------------------------------------------------------------------------
(* The calls of the hook.  lastCall records the call just made: whether it *)
(* took effect, the error its caller observes ("none" when the callback    *)
(* returns, which it does with undefined) and the number of goBack calls   *)
(* that took effect since the last accepted submission, counted up to      *)
(* MaxBacks; for a goBack also whether the session was terminated when it   *)
(* was called.  trail keeps, for every history entry, the session state and   *)
(* the history as they were when the entry was pushed.                     *)

\* no pure function is called outside the session
NoProbe == [fn |-> "none"]
NotCalled == [done |-> FALSE, value |-> NoAction]

Call(op, accepted, backs) ==
    [op |-> op, accepted |-> accepted, error |-> "none", backs |-> backs]

TrailEntry == [state |-> Live, history |-> history]

\* a submitAnswer without the early return
CanSubmitAlways == TRUE

\* if (terminated) return;
CanSubmit == ~terminated

\* a submission that overwrites the newest history entry instead of
\* pushing one
AcceptOverwriting(label, value, u) ==
    /\ history' = IF Len(history) = 0
                  THEN <<snapshot(label, value)>>
                  ELSE [history EXCEPT ![Len(history)] = snapshot(label, value)]
    /\ Commit(u)
    /\ trail' = Append(trail, TrailEntry)
    /\ lastCall' = Call("submitAnswer", TRUE, 0)
    /\ UNCHANGED <<textOverrides, callVars, appVars>>

\* a submission that pushes a history entry and applies the setters u
Accept(label, value, u) ==
    \E set \in {u} :
        /\ history' = Append(history, snapshot(label, value))
        /\ Commit(set)
        /\ trail' = Append(trail, TrailEntry)
        /\ lastCall' = [Call("submitAnswer", TRUE, 0)
                           EXCEPT !.error = IF "raised" \in DOMAIN set
                                            THEN "RangeError" ELSE "none"]
        /\ UNCHANGED <<textOverrides, callVars, appVars>>

\* if (terminated) return;  and, in phases 4/5, if (!currentQuestion) return;
SubmitRejected ==
    /\ \/ ~CanSubmit
       \/ (phase \in {4, 5} /\ currentQuestion = NoQuestion)
    /\ lastCall' = Call("submitAnswer", FALSE, lastCall.backs)
    /\ UNCHANGED <<sessionVars, history, textOverrides, trail, callVars, appVars>>

SubmitDemographics ==
    /\ CanSubmit /\ phase = 0
    /\ \E demos \in DemographicInputs :
          Accept([text |-> "Demographics submitted", arg |-> ""], demos,
                 [Live EXCEPT !.demographics = demos, !.phase = 1])

\* phase-1 setters that terminate only when every flag is positive
CriticalUpdateWhenAll(flags, positiveQids) ==
    IF Len(positiveQids) = Len(RuleData.er_critical)
    THEN [Live EXCEPT !.erCriticalFlags = flags,
                      !.allAnswers = Spread(allAnswers, FlagValues(flags)),
                      !.terminated = TRUE,
                      !.result = buildErCriticalTermination(positiveQids)]
    ELSE [Live EXCEPT !.erCriticalFlags = flags,
                      !.allAnswers = Spread(allAnswers, FlagValues(flags)),
                      !.phase = 2]

\* the phase-1 setters for the submitted flags
CriticalUpdate(flags, positiveQids) ==
    IF Len(positiveQids) > 0
    THEN [Live EXCEPT !.erCriticalFlags = flags,
                      !.allAnswers = Spread(allAnswers, FlagValues(flags)),
                      !.terminated = TRUE,
                      !.result = buildErCriticalTermination(positiveQids)]
    ELSE [Live EXCEPT !.erCriticalFlags = flags,
                      !.allAnswers = Spread(allAnswers, FlagValues(flags)),
                      !.phase = 2]

SubmitErCritical ==
    /\ CanSubmit /\ phase = 1
    /\ \E flags \in ErCriticalInputs :
          Accept([text |-> "ER Critical Screen submitted", arg |-> ""], flags,
                 CriticalUpdate(flags,
                     SelectSeq(RuleData.er_critical,
                               LAMBDA q : flags[q] = TRUE)))

\* a phase-2 submission that returns to the critical screen
SubmitSymptomsToCritical ==
    /\ CanSubmit /\ phase = 2
    /\ \E sel \in SymptomInputs :
          Accept([text |-> "Symptoms: ", arg |-> sel.primary_symptom], sel,
                 [Live EXCEPT !.primarySymptom = sel.primary_symptom,
                              !.secondarySymptoms = sel.secondary_symptoms,
                              !.phase = 1])

SubmitSymptoms ==
    /\ CanSubmit /\ phase = 2
    /\ \E sel \in SymptomInputs :
          Accept([text |-> "Symptoms: ", arg |-> sel.primary_symptom], sel,
                 [Live EXCEPT !.primarySymptom = sel.primary_symptom,
                              !.secondarySymptoms = sel.secondary_symptoms,
                              !.phase = 3])

\* phase-3 setters that end the session without storing the result
ChecklistUpdateWithoutResult(u, termResult, nextAnswers) ==
    IF termResult # NoResult
    THEN [u EXCEPT !.terminated = TRUE]
    ELSE enterSequentialPhase(u, 4, primarySymptom, nextAnswers, demographics)

\* the phase-3 setters for the submitted flags
ChecklistUpdate(u, termResult, nextAnswers) ==
    IF termResult # NoResult
    THEN [u EXCEPT !.terminated = TRUE, !.result = termResult]
    ELSE enterSequentialPhase(u, 4, primarySymptom, nextAnswers, demographics)

SubmitErChecklist ==
    /\ CanSubmit /\ phase = 3
    /\ \E flags \in ErChecklistInputs :
          Accept([text |-> "ER Checklist submitted", arg |-> ""], flags,
                 ChecklistUpdate(
                     [Live EXCEPT !.erChecklistFlags = flags,
                                  !.allAnswers =
                                      Spread(allAnswers, FlagValues(flags))],
                     resolveErChecklistTermination(flags,
                         <<primarySymptom>> \o secondarySymptoms,
                         computeAge(Get(demographics, "date_of_birth"))),
                     Spread(allAnswers, FlagValues(flags))))

\* the phase-4/5 setters once the action of the answered question has been
\* processed on a copy of the pending list
ActionUpdate(u, actionResult, nextAnswers) ==
    IF actionResult.type = "terminate"
    THEN [u EXCEPT !.terminated = TRUE, !.result = actionResult.termination,
                   !.pending = actionResult.pending]
    ELSE IF actionResult.type = "advance_to_opd"
    THEN enterSequentialPhase(u, 5, primarySymptom, nextAnswers, demographics)
    ELSE CHOOSE r \in
             {handleResolveResult(u, resolved, nextAnswers) :
                 resolved \in
                     {resolveNext(IF phase = 4 THEN "oldcarts" ELSE "opd",
                                  primarySymptom, actionResult.pending,
                                  nextAnswers, demographics, phase)}} : TRUE

\* the phase-4/5 setters after setAllAnswers(nextAnswers)
SequentialUpdate(u, action, nextAnswers) ==
    IF action = NoAction
    THEN CHOOSE r \in
             {handleResolveResult(u, resolved, nextAnswers) :
                 resolved \in
                     {resolveNext(IF phase = 4 THEN "oldcarts" ELSE "opd",
                                  primarySymptom, pending, nextAnswers,
                                  demographics, phase)}} : TRUE
    ELSE CHOOSE r \in
             {ActionUpdate(u, actionResult, nextAnswers) :
                 actionResult \in
                     {processAction(action, pending, nextAnswers, phase)}} :
             TRUE

\* a submission that does not record the answer of the question shown
WithAnswerDropped(value) == allAnswers

\* {...allAnswers, [currentQuestion.qid]: value}
WithAnswer(value) ==
    Spread(allAnswers, [q \in {currentQuestion.qid} |-> value])

SubmitSequential ==
    /\ CanSubmit /\ phase \in {4, 5} /\ currentQuestion # NoQuestion
    /\ \E value \in AnswerInputs(currentQuestion) :
          Accept([text |-> "question", arg |-> currentQuestion.question],
                 value,
                 SequentialUpdate([Live EXCEPT !.allAnswers = WithAnswer(value)],
                                  determineAction(currentQuestion, value),
                                  WithAnswer(value)))

submitAnswer ==
    \/ SubmitRejected
    \/ SubmitDemographics
    \/ SubmitErCritical
    \/ SubmitSymptoms
    \/ SubmitErChecklist
    \/ SubmitSequential

canGoBack == Len(history) > 0

goBack ==
    /\ lastCall' = Call("goBack", Len(history) > 0,
                         IF Len(history) > 0 /\ lastCall.backs < MaxBacks
                         THEN lastCall.backs + 1
                         ELSE lastCall.backs)
                       @@ [onTerminated |-> terminated]
    /\ UNCHANGED <<textOverrides, callVars, appVars>>
    /\ IF Len(history) = 0
       THEN UNCHANGED <<sessionVars, history, trail>>
       ELSE /\ history' = SubSeq(history, 1, Len(history) - 1)
            /\ Commit(restore(Live, history[Len(history)]))
            /\ trail' = SubSeq(trail, 1, Len(trail) - 1)

InitialState ==
    [phase |-> 0, demographics |-> EmptyMap, allAnswers |-> EmptyMap,
     primarySymptom |-> "", secondarySymptoms |-> <<>>,
     erCriticalFlags |-> EmptyMap, erChecklistFlags |-> EmptyMap,
     pending |-> <<>>, currentQuestion |-> NoQuestion,
     terminated |-> FALSE, result |-> NoResult]

\* a reset that also drops the text overrides
resetClearingOverrides ==
    /\ Commit(InitialState)
    /\ history' = <<>>
    /\ trail' = <<>>
    /\ lastCall' = Call("reset", TRUE, 0)
    /\ textOverrides' = EmptyMap
    /\ UNCHANGED <<callVars, appVars>>

reset ==
    /\ Commit(InitialState)
    /\ history' = <<>>
    /\ trail' = <<>>
    /\ lastCall' = Call("reset", TRUE, 0)
    /\ UNCHANGED <<textOverrides, callVars, appVars>>

\* texts the inline editor saves, for the questions it is used on here
OverrideQids == {"h_o_1"}
OverrideTexts == {"edited"}
OverrideOptions == {s_yes}

NoOverride == [questionText |-> "undefined", optionLabels |-> EmptyMap]

\* prev[qid], an absent entry spreading to nothing
OverrideOf(prev, qid) == IF qid \in DOMAIN prev THEN prev[qid] ELSE NoOverride

setQuestionText ==
    /\ \E qid \in OverrideQids, text \in OverrideTexts :
          textOverrides' =
              Spread(textOverrides,
                     [q \in {qid} |->
                         [OverrideOf(textOverrides, qid)
                             EXCEPT !.questionText = text]])
    /\ lastCall' = Call("setQuestionText", TRUE, lastCall.backs)
    /\ UNCHANGED <<sessionVars, history, trail, callVars, appVars>>

setOptionLabel ==
    /\ \E qid \in OverrideQids, optionId \in OverrideOptions,
          label \in OverrideTexts :
          textOverrides' =
              Spread(textOverrides,
                     [q \in {qid} |->
                         [OverrideOf(textOverrides, qid)
                             EXCEPT !.optionLabels =
                                 Spread(@, [o \in {optionId} |-> label])]])
    /\ lastCall' = Call("setOptionLabel", TRUE, lastCall.backs)
    /\ UNCHANGED <<sessionVars, history, trail, callVars, appVars>>

\* useState<string | null>(null): no version recorded
NoVersion == 0

\* what a fetchVersion call settles with: the version the server answered,
\* or a rejection
Answer(v) == [ok |-> TRUE, version |-> v]
Failure == [ok |-> FALSE, version |-> NoVersion]

\* what the handler of a settled poll did
Polled(kind, returned, reloaded, validated) ==
    [kind |-> kind, returned |-> returned, reloaded |-> reloaded,
     validated |-> validated]

\* AppProvider's initial state, the effect mounted, the tabs showing the
\* data they loaded on mount
AppInit ==
    /\ version = NoVersion
    /\ reloadKey = 0
    /\ isEditing = FALSE
    /\ mounted = TRUE
    /\ serverVersion = 1
    /\ inFlight = {}
    /\ displayed = 1
    /\ polled = Polled("none", NoVersion, FALSE, FALSE)
    /\ owed = FALSE

Init ==
    /\ phase = 0
    /\ demographics = EmptyMap
    /\ allAnswers = EmptyMap
    /\ primarySymptom = ""
    /\ secondarySymptoms = <<>>
    /\ erCriticalFlags = EmptyMap
    /\ erChecklistFlags = EmptyMap
    /\ pending = <<>>
    /\ currentQuestion = NoQuestion
    /\ terminated = FALSE
    /\ result = NoResult
    /\ history = <<>>
    /\ textOverrides = EmptyMap
    /\ lastCall = Call("init", TRUE, 0)
    /\ trail = <<>>
    /\ probe = NoProbe
    /\ outcome = NotCalled
    /\ AppInit

Next ==
    \/ submitAnswer
    \/ goBack
    \/ reset
    \/ setQuestionText
    \/ setOptionLabel

Spec == Init /\ [][Next]_vars

\* a phase-2 submission of Nausea, a symptom with OPD questions only
SubmitNausea ==
    /\ CanSubmit /\ phase = 2
    /\ Accept([text |-> "Symptoms: ", arg |-> "Nausea"],
              [primary_symptom |-> "Nausea", secondary_symptoms |-> <<>>],
              [Live EXCEPT !.primarySymptom = "Nausea",
                           !.secondarySymptoms = <<>>,
                           !.phase = 3])

\* the session with a selector that offers Nausea as well
WideNext ==
    \/ submitAnswer
    \/ goBack
    \/ reset
    \/ setQuestionText
    \/ setOptionLabel
    \/ SubmitNausea

WideSpec == Init /\ [][WideNext]_vars

\* sim.goBack() called n times from one click: every call is the callback of
\* the same render, so each reads the same history and restores its last
\* entry, while the queued updates h => h.slice(0, -1) apply one after the
\* other to h
RECURSIVE RepeatedGoBack(_, _, _)
RepeatedGoBack(n, u, h) ==
    IF n = 0 \/ Len(history) = 0
    THEN [state |-> u, history |-> h]
    ELSE RepeatedGoBack(n - 1, restore(u, history[Len(history)]),
                        SubSeq(h, 1, Len(h) - 1))

\* the setters of the click on entry index of the sidebar, committed
GoneBack(index, after) ==
    /\ Commit(after.state)
    /\ history' = after.history
    /\ trail' = SubSeq(trail, 1, Len(after.history))
    /\ lastCall' = Call("goBackTo", TRUE, 0) @@ [index |-> index]
    /\ UNCHANGED <<textOverrides, callVars, appVars>>

\* goBackTo(index) of the simulator tab; the sidebar shows one button per
\* history entry
goBackTo ==
    \E index \in 0..(Len(history) - 1) :
        GoneBack(index, RepeatedGoBack(Len(history) - index, Live, history))

\* the session as the form, the Back and Reset buttons and the history
\* sidebar of the simulator tab drive it
TabNext ==
    \/ submitAnswer
    \/ goBack
    \/ reset
    \/ goBackTo

TabSpec == Init /\ [][TabNext]_vars

\* forward play: the user answers every screen that is shown and never
\* goes back, resets or edits a text
ForwardNext == submitAnswer

ForwardSpec == Init /\ [][ForwardNext]_vars /\ WF_vars(ForwardNext)

----------------------------------------------------------------------------
(* Version polling (useVersionPolling) and the editors of the tabs.  A    *)
(* version hash is represented by the number of the ruleset revision it   *)
(* identifies.                                                            *)

sessionSide == <<sessionVars, history, textOverrides, lastCall, trail,
                 callVars>>

\* poll() up to its await: fetchVersion() is sent, to be settled with r
FetchVersion(r) ==
    /\ mounted
    /\ Cardinality(inFlight) < MaxInFlight
    /\ r \notin inFlight
    /\ inFlight' = inFlight \cup {r}
    /\ UNCHANGED <<version, reloadKey, isEditing, mounted, serverVersion,
                   displayed, polled, owed, sessionSide>>

\* the initial poll() and the calls made by setInterval(poll, 2000)
poll == \E r \in {Answer(serverVersion), Failure} : FetchVersion(r)

\* a reload condition that does not look at the editors
ShouldReloadWhileEditing(res) ==
    version # NoVersion /\ res.version # version

\* versionRef.current && res.version !== versionRef.current
\*                     && !editingRef.current
ShouldReload(res) ==
    version # NoVersion /\ res.version # version /\ ~isEditing

\* the response differs from a recorded version
SeesChange(res) == version # NoVersion /\ res.version # version

\* poll() after its await, for a response: triggerReload() makes every tab
\* load the server's data, triggerValidation() runs the validation, and
\* the returned version is recorded in any case
PollAnswered(res) ==
    /\ res \in inFlight /\ res.ok /\ mounted
    /\ inFlight' = inFlight \ {res}
    /\ IF ShouldReload(res)
       THEN /\ reloadKey' = reloadKey + 1
            /\ displayed' = serverVersion
            /\ owed' = FALSE
            /\ polled' = Polled("recorded", res.version, TRUE, TRUE)
       ELSE /\ UNCHANGED <<reloadKey, displayed>>
            /\ owed' = (owed \/ SeesChange(res))
            /\ polled' = Polled("recorded", res.version, FALSE, FALSE)
    /\ version' = res.version
    /\ UNCHANGED <<isEditing, mounted, serverVersion, sessionSide>>

\* catch { /* ignore network errors */ }
PollFailed(res) ==
    /\ res \in inFlight /\ ~res.ok
    /\ inFlight' = inFlight \ {res}
    /\ polled' = Polled("failed", NoVersion, FALSE, FALSE)
    /\ UNCHANGED <<version, reloadKey, isEditing, mounted, serverVersion,
                   displayed, owed, sessionSide>>

\* if (!mounted) return;
PollDropped(res) ==
    /\ res \in inFlight /\ res.ok /\ ~mounted
    /\ inFlight' = inFlight \ {res}
    /\ polled' = Polled("dropped", res.version, FALSE, FALSE)
    /\ UNCHANGED <<version, reloadKey, isEditing, mounted, serverVersion,
                   displayed, owed, sessionSide>>

PollSettled ==
    \E res \in inFlight :
        \/ PollAnswered(res)
        \/ PollFailed(res)
        \/ PollDropped(res)

\* the cleanup of the effect: mounted = false, clearInterval(id)
Unmount ==
    /\ mounted
    /\ mounted' = FALSE
    /\ UNCHANGED <<version, reloadKey, isEditing, serverVersion, inFlight,
                   displayed, polled, owed, sessionSide>>

\* a tab opens an editor: setIsEditing(true)
handleEdit ==
    /\ mounted /\ ~isEditing
    /\ isEditing' = TRUE
    /\ UNCHANGED <<version, reloadKey, mounted, serverVersion, inFlight,
                   displayed, polled, owed, sessionSide>>

\* the editor is closed without saving: setIsEditing(false)
handleCancel ==
    /\ mounted /\ isEditing
    /\ isEditing' = FALSE
    /\ UNCHANGED <<version, reloadKey, mounted, serverVersion, inFlight,
                   displayed, polled, owed, sessionSide>>

\* a successful save: the server stores the item, which may give the
\* ruleset a new version, then setIsEditing(false) and await load()
handleSave ==
    /\ mounted /\ isEditing
    /\ \E v \in {serverVersion, serverVersion + 1} \cap 1..MaxVersions :
          /\ serverVersion' = v
          /\ displayed' = v
    /\ isEditing' = FALSE
    /\ owed' = FALSE
    /\ UNCHANGED <<version, reloadKey, mounted, inFlight, polled,
                   sessionSide>>

\* the ruleset files change on the server
ServerChange ==
    /\ serverVersion < MaxVersions
    /\ serverVersion' = serverVersion + 1
    /\ UNCHANGED <<version, reloadKey, isEditing, mounted, inFlight,
                   displayed, polled, owed, sessionSide>>

PollNext ==
    \/ poll
    \/ PollSettled
    \/ Unmount
    \/ handleEdit
    \/ handleCancel
    \/ handleSave
    \/ ServerChange

PollSpec == Init /\ [][PollNext]_vars

\* the interval timer keeps firing and the server keeps answering, and
\* every request is settled
PollLiveSpec ==
    /\ PollSpec
    /\ SF_vars(FetchVersion(Answer(serverVersion)))
    /\ WF_vars(PollSettled)

----------------------------------------------------------------------------
(* Properties of the session: history and termination *)

\* an accepted submitAnswer has just been made
Submitted == lastCall.op = "submitAnswer" /\ lastCall.accepted

\* the step is a goBack that popped an entry
WentBack == lastCall'.op = "goBack" /\ lastCall'.accepted

\* the step is an accepted submitAnswer made in phase p
SubmittedIn(p) ==
    phase = p /\ lastCall'.op = "submitAnswer" /\ lastCall'.accepted

\* trail and history are pushed and popped together, and every trail entry
\* holds the history as it was below it
TrailFollowsHistory ==
    /\ Len(trail) = Len(history)
    /\ \A i \in 1..Len(trail) : trail[i].history = SubSeq(history, 1, i - 1)

(* C1: every goBack that pops an entry leaves the eleven session fields    *)
(* and the history exactly as they were before the submitAnswer that       *)
(* pushed the entry, and leaves the text overrides as they are; the        *)
(* entries are pushed and popped as a stack, so N submissions followed by  *)
(* N goBacks give back the state and the history the N submissions began   *)
(* from, with the overrides set in between kept.                           *)
GoBackRestoresSubmittedState ==
    /\ []TrailFollowsHistory
    /\ [][WentBack => /\ Live' = trail[Len(trail)].state
                      /\ history' = trail[Len(trail)].history
                      /\ textOverrides' = textOverrides]_vars

\* two goBacks in a row have undone two sequential answers, an override
\* saved before them still being there
TwoAnswersUndone ==
    /\ lastCall.op = "goBack" /\ lastCall.accepted /\ lastCall.backs >= 2
    /\ phase = 4 /\ ~terminated
    /\ textOverrides # EmptyMap

(* C2: while terminated is true a submitAnswer is never accepted, changes  *)
(* no session field and pushes no history entry; the only calls that       *)
(* change a session field of a terminated session are goBack and reset.    *)
TerminatedRejectsSubmit ==
    [][terminated =>
          /\ lastCall'.op = "submitAnswer" =>
                /\ ~lastCall'.accepted
                /\ UNCHANGED <<sessionVars, history>>
          /\ ~(UNCHANGED sessionVars) =>
                lastCall'.op \in {"goBack", "reset"}]_vars

\* a submitAnswer has been made on a terminated session
SubmitOnTerminated ==
    terminated /\ lastCall.op = "submitAnswer" /\ ~lastCall.accepted

(* C3: a submitAnswer made on a terminated session gives its caller an     *)
(* error of kind InvalidState.                                             *)
SubmitOnTerminatedIsInvalidState ==
    SubmitOnTerminated => lastCall.error = "InvalidState"

(* C4: the stored pending list holds no qid that is a key of allAnswers.   *)
PendingHoldsNoAnsweredQid ==
    \A i \in 1..Len(pending) : pending[i] \notin DOMAIN allAnswers

\* no qid twice, and none that is answered
QueueIsClean(queue, answers) ==
    /\ \A i, j \in 1..Len(queue) : i # j => queue[i] # queue[j]
    /\ \A i \in 1..Len(queue) : queue[i] \notin DOMAIN answers

\* the pending list after the action of the shown question, for one answer
QueueAfter(action, value) ==
    processAction(action, pending, WithAnswer(value), phase).pending

GotoLeavesCleanQueue(action, value) ==
    action.action = "goto" =>
        QueueIsClean(QueueAfter(action, value), WithAnswer(value))

(* C5: whatever the shown question is answered with, a goto action of the  *)
(* question leaves a pending list that holds every qid at most once and    *)
(* no answered qid.                                                        *)
GotoInsertsNoDuplicate ==
    (phase \in {4, 5} /\ ~terminated /\ currentQuestion # NoQuestion) =>
        \A value \in AnswerInputs(currentQuestion) :
            GotoLeavesCleanQueue(determineAction(currentQuestion, value),
                                 value)

(* C6: the phase is always one of 0..5, and no submitAnswer lowers it.     *)
PhaseNeverDecreasesForward ==
    [][/\ phase' \in 0..5
       /\ lastCall'.op = "submitAnswer" => phase' >= phase]_vars

\* forward play has gone through every phase up to a question of phase 5
ReachedOpdQuestion ==
    Submitted /\ phase = 5 /\ ~terminated /\ Len(history) >= 5

----------------------------------------------------------------------------
(* Properties of the two emergency screens *)

\* the value the last history entry was submitted with
SubmittedValue(h) == h[Len(h)].answerValue

\* the qids a submitted flag map marks positive
PositiveIn(flags) == {q \in DOMAIN flags : flags[q] = TRUE}

CriticalOutcome(flags) ==
    IF PositiveIn(flags) # {}
    THEN terminated' /\ phase' = 1
    ELSE ~terminated' /\ phase' = 2

(* C7: a phase-1 submission with at least one true flag terminates the     *)
(* session in phase 1; one with every flag false leaves it not terminated  *)
(* in phase 2.                                                             *)
CriticalFlagTerminates ==
    [][SubmittedIn(1) => CriticalOutcome(SubmittedValue(history'))]_vars

\* a critical screen with one item ticked and the others not was submitted
OneCriticalFlagSubmitted ==
    /\ Submitted /\ phase = 1 /\ terminated
    /\ Cardinality(PositiveIn(erCriticalFlags)) = 1

CriticalResult(flags, res) ==
    PositiveIn(flags) # {} =>
        /\ res.type = "terminated"
        /\ res.severity.id = "sev003"
        /\ Len(res.departments) = 1
        /\ res.departments[1].id = "dept002"
        /\ res.reason.text = "ER critical positive: "
        /\ Range(res.reason.qids) = PositiveIn(flags)
        /\ Len(res.reason.qids) = Cardinality(PositiveIn(flags))

(* C8: a phase-1 submission with any true flag gives a terminated result   *)
(* of severity sev003 and the single department dept002, whatever the      *)
(* other flags are, whose reason is "ER critical positive: " followed by   *)
(* exactly the qids whose flag is true.                                    *)
CriticalResultIsEmergency ==
    [][SubmittedIn(1) =>
          CriticalResult(SubmittedValue(history'), result')]_vars

\* a critical screen with two items ticked and one not was submitted
TwoCriticalFlagsSubmitted ==
    /\ Submitted /\ phase = 1 /\ terminated
    /\ Len(result.reason.qids) = 2
    /\ \E q \in DOMAIN erCriticalFlags : erCriticalFlags[q] = FALSE

\* the bucket of an age: pediatric when known and below 15
IsPediatric(age) == age.known /\ age.n < 15

\* the checklists of the bucket of an age
BucketOf(age) ==
    IF IsPediatric(age) THEN RuleData.er_pediatric ELSE RuleData.er_adult

\* the places <<symptom index, item index>> of the iteration over a bucket
Places(source, symptoms) ==
    UNION {{<<s, k>> : k \in 1..Len(source[symptoms[s]])} :
              s \in {x \in 1..Len(symptoms) : symptoms[x] \in DOMAIN source}}

ItemAt(source, symptoms, place) == source[symptoms[place[1]]][place[2]]

ComesBefore(a, b) == a[1] < b[1] \/ (a[1] = b[1] /\ a[2] < b[2])

PositivePlaces(source, symptoms, flags) ==
    {p \in Places(source, symptoms) :
        ItemAt(source, symptoms, p).qid \in PositiveIn(flags)}

\* the severity field the bucket reads: severity when pediatric,
\* min_severity otherwise
SeverityField(item, pediatric) ==
    IF pediatric THEN item.severity ELSE item.min_severity

DecidedBy(item, pediatric, res) ==
    /\ res.type = "terminated"
    /\ Len(res.departments) = 1
    /\ res.departments[1].id =
          (IF Len(item.department) > 0 THEN item.department[1] ELSE "dept002")
    /\ res.severity.id =
          (IF SeverityField(item, pediatric) # ""
           THEN SeverityField(item, pediatric) ELSE "sev003")
    /\ res.reason = [text |-> "ER checklist positive: ", qids |-> <<item.qid>>]

ChecklistOutcome(source, symptoms, positives, pediatric) ==
    IF positives = {}
    THEN /\ phase' \in {4, 5}
         /\ terminated' => result'.reason.text # "ER checklist positive: "
    ELSE /\ terminated' /\ phase' = 3
         /\ \E p \in positives :
               /\ \A q \in positives : ~ComesBefore(q, p)
               /\ DecidedBy(ItemAt(source, symptoms, p), pediatric, result')

(* C9: a phase-3 submission is decided by the first positive item of the   *)
(* iteration over the symptoms (primary, then the secondaries as stored)   *)
(* and, within a symptom, over its checklist items as declared: the        *)
(* session terminates in phase 3 with the first department of that item    *)
(* (else dept002), the severity field of that item that its bucket reads   *)
(* (else sev003) and a reason naming that item's qid, later positive       *)
(* items having no influence; with no positive item there is no checklist  *)
(* termination and the session goes on to phase 4 or 5.                    *)
FirstPositiveItemDecides ==
    [][SubmittedIn(3) =>
          ChecklistOutcome(
              BucketOf(computeAge(Get(demographics, "date_of_birth"))),
              <<primarySymptom>> \o secondarySymptoms,
              PositivePlaces(
                  BucketOf(computeAge(Get(demographics, "date_of_birth"))),
                  <<primarySymptom>> \o secondarySymptoms,
                  SubmittedValue(history')),
              IsPediatric(computeAge(Get(demographics, "date_of_birth"))))]_vars

\* the second Headache item decided although the Fever item of the
\* secondary symptom was positive too, its absent fields giving the defaults
LaterPositiveIgnored ==
    /\ Submitted /\ phase = 3 /\ terminated
    /\ result.reason.qids = <<"ea_h_2">>
    /\ "ea_h_1" \in DOMAIN erChecklistFlags /\ ~erChecklistFlags["ea_h_1"]
    /\ "ea_f_1" \in DOMAIN erChecklistFlags /\ erChecklistFlags["ea_f_1"]

QidsOf(items) == [i \in 1..Len(items) |-> items[i].qid]

\* the form shows the items of the bucket of the age, in order
ShownIsBucket(age, symptoms) ==
    ShownChecklist = QidsOf(ChecklistItems(BucketOf(age), symptoms))

\* a result that names an item of the list, with the severity field that
\* the bucket reads
ReadsBucket(items, pediatric, res) ==
    \E i \in 1..Len(items) :
        /\ res.reason.qids = <<items[i].qid>>
        /\ res.severity.id =
              (IF SeverityField(items[i], pediatric) # ""
               THEN SeverityField(items[i], pediatric) ELSE "sev003")

ResolvedFromBucket(age, symptoms) ==
    /\ DOMAIN SubmittedValue(history') = Range(ShownChecklist)
    /\ (terminated' /\ phase' = 3) =>
          ReadsBucket(ChecklistItems(BucketOf(age), symptoms),
                      IsPediatric(age), result')

(* C10: in phase 3 the checklist is the pediatric one exactly when the     *)
(* age computed from the date of birth is known and below 15, and the      *)
(* adult one for age 15, any larger age and an unknown age; the items the  *)
(* form shows are the items of that bucket, and a phase-3 submission is    *)
(* resolved over the same items, reading severity in the pediatric bucket  *)
(* and min_severity in the adult one.                                      *)
BucketFollowsAge ==
    /\ [](phase = 3 =>
             ShownIsBucket(computeAge(Get(demographics, "date_of_birth")),
                           <<primarySymptom>> \o secondarySymptoms))
    /\ [][SubmittedIn(3) =>
             ResolvedFromBucket(
                 computeAge(Get(demographics, "date_of_birth")),
                 <<primarySymptom>> \o secondarySymptoms)]_vars

\* a patient of exactly 15 was resolved over the adult Headache checklist,
\* the severity coming from min_severity
FifteenIsAdult ==
    /\ Submitted /\ phase = 3 /\ terminated
    /\ computeAge(Get(demographics, "date_of_birth")) =
          [known |-> TRUE, n |-> PEDIATRIC_AGE_THRESHOLD]
    /\ result.reason.qids = <<"ea_h_1">>
    /\ result.severity.id = "sev002"

----------------------------------------------------------------------------
(* Properties of the two sequential phases *)

\* the result of a session that ran out of questions
GenericCompletion ==
    [type |-> "completed", departments |-> <<>>, severity |-> NullSeverity,
     reason |-> [text |-> "All phases completed without explicit termination",
                 qids |-> <<>>]]

\* what the engine makes of the queue once an action has been processed
AfterProcessed(res, source, answers, ph) ==
    IF res.type = "continue"
    THEN resolveNext(source, primarySymptom, res.pending, answers,
                     demographics, ph)
    ELSE Resolved(res.type, NoQuestion, res.termination, res.pending)

\* what the engine makes of the action of the answered question and of the
\* stored queue
AfterAnswered(action, source, answers, ph) ==
    IF action = NoAction
    THEN resolveNext(source, primarySymptom, pending, answers, demographics,
                     ph)
    ELSE AfterProcessed(processAction(action, pending, answers, ph), source,
                        answers, ph)

\* what the engine makes of the first qid of a source
OnEntry(first, source, answers, ph) ==
    IF first = "" THEN Resolved("exhausted", NoQuestion, NoResult, <<>>)
    ELSE resolveNext(source, primarySymptom, <<first>>, answers,
                     demographics, ph)

\* the step is an accepted submission that is resolved in OLDCARTS
OldcartsStep == (SubmittedIn(3) /\ phase' # 3) \/ SubmittedIn(4)

\* how OLDCARTS resolution ends for the step
OldcartsOutcome ==
    IF phase = 3
    THEN OnEntry(getFirstQid("oldcarts", primarySymptom), "oldcarts",
                 allAnswers', 4)
    ELSE AfterAnswered(determineAction(currentQuestion,
                                       SubmittedValue(history')),
                       "oldcarts", allAnswers', 4)

\* how OPD resolution from its first qid ends for the step
OpdEntryOutcome ==
    OnEntry(getFirstQid("opd", primarySymptom), "opd", allAnswers', 5)

\* how OPD resolution ends for a step taken in phase 5
OpdOutcome ==
    AfterAnswered(determineAction(currentQuestion, SubmittedValue(history')),
                  "opd", allAnswers', 5)

SeededFromOpd(r5) ==
    /\ phase' = 5
    /\ r5.kind = "question" =>
          /\ ~terminated'
          /\ currentQuestion' = r5.question
          /\ pending' = r5.pending
    /\ r5.kind # "question" => terminated'

WhenOldcartsExhausted(r4, r5) == r4.kind = "exhausted" => SeededFromOpd(r5)

(* C11: when OLDCARTS resolution is exhausted with no terminal action, on  *)
(* entry to phase 4 or after an answer given in phase 4, the session is    *)
(* in phase 5 with the question and the queue that resolving OPD's first   *)
(* qid gives; and no state has a completed result in a phase other than 5. *)
ExhaustedOldcartsEntersOpd ==
    /\ [](result.type = "completed" => phase = 5)
    /\ [][OldcartsStep =>
             WhenOldcartsExhausted(OldcartsOutcome, OpdEntryOutcome)]_vars

\* Rash with no matching gender: OLDCARTS was exhausted on entry, and the
\* first OPD question is shown
OpdSeededOnEntry ==
    /\ Submitted /\ Len(history) = 4
    /\ primarySymptom = "Rash" /\ phase = 5 /\ ~terminated
    /\ currentQuestion.qid = "r_p_1"

Completes == phase' = 5 /\ terminated' /\ result' = GenericCompletion

WhenOpdEntryExhausted(r, r5) ==
    (r.kind \in {"exhausted", "advance_to_opd"} /\ r5.kind = "exhausted")
        => Completes

WhenOpdExhausted(r) == r.kind = "exhausted" => Completes

(* C12: when OPD resolution is exhausted with no terminal action, on       *)
(* entry to phase 5 (a symptom with no OLDCARTS and no OPD question        *)
(* included) or after an answer given in phase 5, the session is in phase  *)
(* 5, terminated, with the completed result of no department, no severity  *)
(* and the reason "All phases completed without explicit termination".     *)
ExhaustedOpdCompletes ==
    [][/\ OldcartsStep =>
             WhenOpdEntryExhausted(OldcartsOutcome, OpdEntryOutcome)
       /\ SubmittedIn(5) =>
             /\ WhenOpdExhausted(OpdOutcome)
             /\ WhenOpdEntryExhausted(OpdOutcome, OpdEntryOutcome)]_vars

\* Fever has no OLDCARTS and no OPD question: the checklist submission
\* completed the session
NoQuestionsCompleted ==
    /\ Submitted /\ Len(history) = 4
    /\ primarySymptom = "Fever"
    /\ getFirstQid("oldcarts", "Fever") = "" /\ getFirstQid("opd", "Fever") = ""
    /\ phase = 5 /\ terminated /\ result.type = "completed"

\* the qids of the OLDCARTS questions of the primary symptom
OldcartsQids ==
    {SourceList("oldcarts", primarySymptom)[i].qid :
        i \in 1..Len(SourceList("oldcarts", primarySymptom))}

RestartedAt(r5) ==
    /\ phase' = 5
    /\ r5.kind = "question" =>
          /\ ~terminated'
          /\ currentQuestion' = r5.question
          /\ currentQuestion'.qid \notin OldcartsQids
          /\ pending' = r5.pending
          /\ \A i \in 1..Len(pending') : pending'[i] \notin OldcartsQids
    /\ r5.kind = "terminate" =>
          terminated' /\ result' = r5.termination /\ pending' = r5.pending
    /\ r5.kind = "exhausted" => terminated' /\ result' = GenericCompletion

WhenOpdReached(r4, r5) == r4.kind = "advance_to_opd" => RestartedAt(r5)

IsAutoEvaluated(question) ==
    question.question_type \in {"conditional", "gender_filter", "age_filter"}

\* the question is one of the source, is shown to the user and is unanswered
UserFacing(question, source, answers) ==
    /\ \E i \in 1..Len(SourceList(source, primarySymptom)) :
          SourceList(source, primarySymptom)[i] = question
    /\ ~IsAutoEvaluated(question)
    /\ question.qid \notin DOMAIN answers

ResolvesToUserFacing(r, source, answers) ==
    r.kind = "question" => UserFacing(r.question, source, answers)

\* in the state, whatever the shown question is answered with, resolveNext
\* returns kind "question" only with a user-facing question
NextIsUserFacing(source) ==
    \A value \in AnswerInputs(currentQuestion) :
        ResolvesToUserFacing(
            AfterAnswered(determineAction(currentQuestion, value), source,
                          WithAnswer(value), phase),
            source, WithAnswer(value))

\* the question and the queue of the state are those resolveNext returned
Persisted(r) ==
    (r.kind = "question" /\ phase' = phase) =>
        currentQuestion' = r.question /\ pending' = r.pending

(* C14: in phases 4 and 5 currentQuestion is never a conditional, a        *)
(* gender_filter or an age_filter question and, while the session is not   *)
(* terminated, it is not answered; resolveNext returns kind "question"     *)
(* only with such a question of the source, and the question and the       *)
(* remaining queue it returns are the ones the session keeps.              *)
ShownQuestionIsUserFacing ==
    /\ []((phase \in {4, 5} /\ currentQuestion # NoQuestion) =>
             /\ ~IsAutoEvaluated(currentQuestion)
             /\ ~terminated => currentQuestion.qid \notin DOMAIN allAnswers)
    /\ []((phase \in {4, 5} /\ ~terminated /\ currentQuestion # NoQuestion) =>
             NextIsUserFacing(IF phase = 4 THEN "oldcarts" ELSE "opd"))
    /\ [][/\ SubmittedIn(4) => Persisted(OldcartsOutcome)
          /\ SubmittedIn(5) => Persisted(OpdOutcome)]_vars

\* the age filter h_o_3 was evaluated without being shown, and the question
\* it leads an adult to is shown
AgeFilterPassedOver ==
    /\ Submitted /\ phase = 4 /\ ~terminated
    /\ currentQuestion.qid = "h_o_5"
    /\ "h_o_3" \notin DOMAIN allAnswers

----------------------------------------------------------------------------
(* Calls of the pure functions of engine.ts and evaluator.ts made outside  *)
(* a session: probe is the call with its arguments, outcome what it has    *)
(* returned.  The loop of resolveNext is run one iteration at a time.      *)

\* longest goto target list and longest pending queue passed
MaxTargets == 2
MaxQueue == 2

\* longest rule list and longest option list passed
MaxRules == 2
MaxOptions == 3

\* every sequence over S of length n at most
RECURSIVE SeqsUpTo(_, _)
SeqsUpTo(S, n) ==
    IF n = 0 THEN {<<>>}
    ELSE SeqsUpTo(S, n - 1) \cup
         {Append(s, x) : s \in {r \in SeqsUpTo(S, n - 1) : Len(r) = n - 1},
                         x \in S}

ProbeQids == {"q1", "q2", "q3"}

\* answers maps over some of the probed qids
ProbeAnswers ==
    UNION {[S -> {StrV(s_yes)}] : S \in SUBSET {"q1", "q2"}}

ProcessActionProbes ==
    {[fn |-> "processAction", action |-> Goto(targets), pending |-> queue,
      answers |-> answers, phase |-> 4] :
        targets \in SeqsUpTo(ProbeQids, MaxTargets),
        queue \in SeqsUpTo(ProbeQids, MaxQueue),
        answers \in ProbeAnswers}
    \cup
    {[fn |-> "processAction", action |-> action, pending |-> <<"q1">>,
      answers |-> EmptyMap, phase |-> ph] :
        action \in {Opd, Terminate(<<"dept004">>, <<"sev002">>, "probe")},
        ph \in {4, 5}}

\* the calls of resolveNext, each with the demoWithAge it computes before
\* its loop; the sources are those whose goto edges form no cycle
AcyclicSources ==
    {<<"opd", "Headache">>, <<"oldcarts", "Cough">>, <<"oldcarts", "Rash">>,
     <<"opd", "Cough">>, <<"oldcarts", "Vertigo">>}

QidsIn(questions) == {questions[i].qid : i \in 1..Len(questions)}

ResolveAnswers ==
    {EmptyMap,
     [q \in {"h_o_1"} |-> StrV(s_yes)],
     [q \in {"h_o_1", "h_p_3"} |-> StrV(s_no)],
     [q \in {"c_o_2", "r_o_2"} |-> StrV(s_yes)]}

ResolveNextProbes ==
    UNION {{[fn |-> "resolveNext", source |-> src[1], symptom |-> src[2],
             pending |-> queue, answers |-> answers, demographics |-> demos,
             demoWithAge |->
                 WithAge(demos, computeAge(Get(demos, "date_of_birth"))),
             phase |-> IF src[1] = "opd" THEN 5 ELSE 4] :
               queue \in SeqsUpTo(QidsIn(SourceList(src[1], src[2]))
                                     \cup {"unknown"}, MaxQueue),
               answers \in ResolveAnswers,
               demos \in DemographicInputs} :
           src \in AcyclicSources}

\* expected values that fit each operator
ProbeOps ==
    {"eq", "ne", "lt", "le", "gt", "ge", "between", "contains",
     "not_contains", "contains_any", "contains_all", "matches", "like"}

ExpectedFor(op) ==
    CASE op = "between" -> ListV(<<NumV(1), NumV(5)>>)
      [] op \in {"contains_any", "contains_all"} ->
            ListV(<<StrV(s_a), StrV(s_yes)>>)
      [] op \in {"lt", "le", "gt", "ge"} -> NumV(3)
      [] OTHER -> StrV(s_yes)

PredicateAnswers ==
    {EmptyMap,
     [q \in {"q1"} |-> StrV(s_yes)],
     [q \in {"q1"} |-> NumV(3)],
     [q \in {"q1"} |-> NullV],
     [q \in {"q1"} |-> ListV(<<StrV(s_a)>>)],
     [q \in {"q1"} |-> ObjV([f \in {"dose"} |-> StrV(s_yes)])]}

EvalPredicateProbes ==
    {[fn |-> "evalPredicate", pred |-> pred, answers |-> answers] :
        pred \in {Predicate(qid, op, ExpectedFor(op)) :
                     qid \in {"q1", "q2"}, op \in ProbeOps}
                 \cup {FieldPredicate(qid, "dose", op, ExpectedFor(op)) :
                          qid \in {"q1", "q2"}, op \in ProbeOps},
        answers \in PredicateAnswers}

\* the action a rule or an option carries names its place in the list
PlaceAction(i) == Goto(<<<<"t1", "t2", "t3", "t4">>[i]>>)

\* `when` lists: one predicate, its negation, none, two predicates, and a
\* not_contains
ProbeWhens ==
    {<<Predicate("q1", "eq", StrV(s_yes))>>,
     <<Predicate("q1", "ne", StrV(s_yes))>>,
     <<>>,
     <<Predicate("q1", "eq", StrV(s_yes)), Predicate("q2", "eq", StrV(s_no))>>,
     <<Predicate("q2", "not_contains", StrV(s_no))>>}

ConditionalAnswers ==
    {EmptyMap,
     [q \in {"q1"} |-> StrV(s_yes)],
     [q \in {"q1"} |-> StrV(s_no)],
     [q \in {"q1", "q2"} |-> IF q = "q1" THEN StrV(s_yes) ELSE StrV(s_no)],
     [q \in {"q2"} |-> StrV(s_yes)]}

EvalConditionalProbes ==
    {[fn |-> "evalConditional",
      rules |-> [i \in 1..Len(whens) |-> Rule(whens[i], PlaceAction(i))],
      default |-> default, answers |-> answers] :
        whens \in SeqsUpTo(ProbeWhens, MaxRules),
        default \in {Opd, NoAction},
        answers \in ConditionalAnswers}

s_gt_15  == <<"g","t","_","1","5">>
s_LTE_65 == <<"L","T","E","_","6","5">>
s_ge_65  == <<"g","e","_","6","5">>
s_adult  == <<"a","d","u","l","t">>
s_senior == <<"s","e","n","i","o","r">>
s_geLabel65 == <<" ",">","="," ","6","5">>
s_empty  == <<>>

\* the condition an id or a label states: whether it states one, the
\* relation and the threshold
States(rel, threshold) == [ok |-> TRUE, rel |-> rel, threshold |-> threshold]
StatesNothing == [ok |-> FALSE, rel |-> "", threshold |-> 0]

\* the ids and labels an age_filter option is given, each with what its id
\* and its label state
AgeOptionKinds ==
    {[id |-> s_lt_15, label |-> s_ltLabel,
      byId |-> States("<", 15), byLabel |-> States("<", 15)],
     [id |-> s_gte_15, label |-> s_gteLabel,
      byId |-> States(">=", 15), byLabel |-> States(">=", 15)],
     [id |-> s_gt_15, label |-> s_empty,
      byId |-> States(">", 15), byLabel |-> StatesNothing],
     [id |-> s_LTE_65, label |-> s_empty,
      byId |-> States("<=", 65), byLabel |-> StatesNothing],
     [id |-> s_ge_65, label |-> s_ltLabel,
      byId |-> States(">=", 65), byLabel |-> States("<", 15)],
     [id |-> s_adult, label |-> s_gteLabel,
      byId |-> StatesNothing, byLabel |-> States(">=", 15)],
     [id |-> s_senior, label |-> s_geLabel65,
      byId |-> StatesNothing, byLabel |-> States(">=", 65)],
     [id |-> s_Other, label |-> s_Other,
      byId |-> StatesNothing, byLabel |-> StatesNothing]}

ProbeAges ==
    {NullAge} \cup {[known |-> TRUE, n |-> n] : n \in {10, 15, 20, 70}}

EvalAgeFilterProbes ==
    {[fn |-> "evalAgeFilter",
      options |-> [i \in 1..Len(kinds) |->
                     Option(kinds[i].id, kinds[i].label, PlaceAction(i))],
      kinds |-> kinds, age |-> age] :
        kinds \in SeqsUpTo(AgeOptionKinds, MaxOptions),
        age \in ProbeAges}

s_five   == <<"5">>
s_spThree == <<" ","3">>
s_fifteen == <<"1","5">>
s_openGroup == <<"(","a">>
s_openClass == <<"[","a">>
s_star   == <<"*","a">>

\* answers given to compare, each with the number it stands for (none for
\* empty text, text that is no number and lists)
CompareAnswers ==
    {[v |-> NumV(n), isNumber |-> TRUE, n |-> n] : n \in {1, 3, 5, 7}}
    \cup {[v |-> StrV(s_five), isNumber |-> TRUE, n |-> 5],
          [v |-> StrV(s_spThree), isNumber |-> TRUE, n |-> 3],
          [v |-> StrV(s_empty), isNumber |-> FALSE, n |-> 0],
          [v |-> StrV(s_text), isNumber |-> FALSE, n |-> 0],
          [v |-> ListV(<<>>), isNumber |-> FALSE, n |-> 0],
          [v |-> ListV(<<NumV(5)>>), isNumber |-> FALSE, n |-> 0],
          [v |-> ListV(<<StrV(s_a), StrV(s_b)>>), isNumber |-> FALSE, n |-> 0]}

\* numeric operators with the expected values rule data gives them
NumericCompareProbes ==
    {[fn |-> "compare", op |-> op, answer |-> answer, value |-> NumV(n),
      malformed |-> FALSE] :
        op \in {"lt", "le", "gt", "ge"}, answer \in CompareAnswers,
        n \in {3, 5}}
    \cup
    {[fn |-> "compare", op |-> "between", answer |-> answer,
      value |-> ListV(<<NumV(1), NumV(5)>>), malformed |-> FALSE] :
        answer \in CompareAnswers}

\* operators and expected values of malformed rule data: an unknown
\* operator, patterns that do not compile, expected values that are no list
MalformedRules ==
    {<<"like", StrV(s_yes)>>,
     <<"matches", StrV(s_openGroup)>>, <<"matches", StrV(s_openClass)>>,
     <<"matches", StrV(s_star)>>,
     <<"between", NumV(3)>>, <<"between", NullV>>, <<"between", StrV(s_fifteen)>>,
     <<"contains_any", StrV(s_a)>>, <<"contains_any", NullV>>,
     <<"contains_all", NumV(3)>>, <<"contains_all", StrV(s_a)>>}

MalformedCompareProbes ==
    {[fn |-> "compare", op |-> rule[1], answer |-> answer, value |-> rule[2],
      malformed |-> TRUE] :
        rule \in MalformedRules, answer \in CompareAnswers}

s_MaleSp == <<"M","a","l","e"," ">>

\* the ids and labels a gender_filter option is given, each with the gender
\* its id and its label name once case and surrounding blanks are set
\* aside ("" for an absent label)
GenderOptionKinds ==
    {[id |-> s_male, label |-> s_Male, byId |-> "male", byLabel |-> "male"],
     [id |-> s_Female, label |-> s_femaleSp,
      byId |-> "female", byLabel |-> "female"],
     [id |-> s_a, label |-> s_Male, byId |-> "a", byLabel |-> "male"],
     [id |-> s_MaleSp, label |-> s_empty, byId |-> "male", byLabel |-> ""],
     [id |-> s_Other, label |-> s_Other,
      byId |-> "other", byLabel |-> "other"]}

\* the genders of patients, each with the gender it names
ProbeGenders ==
    {[text |-> s_male, names |-> "male"],
     [text |-> s_Male, names |-> "male"],
     [text |-> s_femaleSp, names |-> "female"],
     [text |-> s_Female, names |-> "female"],
     [text |-> s_Other, names |-> "other"],
     [text |-> s_b, names |-> "b"]}

EvalGenderFilterProbes ==
    {[fn |-> "evalGenderFilter",
      options |-> [i \in 1..Len(kinds) |->
                     Option(kinds[i].id, kinds[i].label, PlaceAction(i))],
      kinds |-> kinds, gender |-> gender] :
        kinds \in SeqsUpTo(GenderOptionKinds, MaxOptions),
        gender \in ProbeGenders}

\* the calls of enterSequentialPhase, for the symptoms of the selector and
\* for Nausea, whose first OPD question evaluates to an Opd action.  The
\* answers are those of a session that has not answered the first question
\* of a tree of the symptom
EnterPhaseProbes ==
    {call \in
        {[fn |-> "enterSequentialPhase", nextPhase |-> nextPhase,
          symptom |-> symptom, answers |-> answers, demographics |-> demos] :
            nextPhase \in {4, 5}, symptom \in Symptoms \cup {"Nausea"},
            answers \in ResolveAnswers, demos \in DemographicInputs} :
        /\ getFirstQid("oldcarts", call.symptom) \notin DOMAIN call.answers
        /\ getFirstQid("opd", call.symptom) \notin DOMAIN call.answers}

\* the call about to be made
ChooseProbe ==
    \/ probe \in EnterPhaseProbes
    \/ probe \in NumericCompareProbes
    \/ probe \in MalformedCompareProbes
    \/ probe \in EvalGenderFilterProbes
    \/ probe \in ProcessActionProbes
    \/ probe \in ResolveNextProbes
    \/ probe \in EvalPredicateProbes
    \/ probe \in EvalConditionalProbes
    \/ probe \in EvalAgeFilterProbes

\* a resolveNext whose queue is the caller's array itself
QueueIsArgument == TRUE

\* const queue = [...pending]: whether the array the loop shifts and
\* processAction unshifts is the array the caller passed
QueueIsPending == FALSE

\* const demoWithAge = { ...demographics }: whether the object that gets
\* the computed age is the object the caller passed
DemoWithAgeIsDemographics == FALSE

\* the contents of the caller's three objects once demoWithAge has been
\* prepared; answers is only read, by `in` and by the evaluators
CallerEntered(call) ==
    [pending |-> call.pending, answers |-> call.answers,
     demographics |-> IF DemoWithAgeIsDemographics THEN call.demoWithAge
                      ELSE call.demographics]

\* their contents after an iteration has left the queue as given
CallerAfter(held, queue) ==
    [held EXCEPT !.pending = IF QueueIsPending THEN queue ELSE @]

\* const queue = [...pendingList] for resolveNext, the phase about to be
\* entered and the entries made so far for enterSequentialPhase, nothing
\* for the others
Entered(call) ==
    IF call.fn = "resolveNext"
    THEN [done |-> FALSE,
          value |-> Resolved("continue", NoQuestion, NoResult, call.pending),
          caller |-> CallerEntered(call)]
    ELSE IF call.fn = "enterSequentialPhase"
    THEN [done |-> FALSE,
          value |-> [next |-> call.nextPhase, entered4 |-> 0, entered5 |-> 0]]
    ELSE NotCalled

Returns(value) ==
    /\ outcome' = [done |-> TRUE, value |-> value]
    /\ UNCHANGED <<sessionVars, history, textOverrides, lastCall, trail, probe,
                 appVars>>

CallProcessAction ==
    /\ probe.fn = "processAction"
    /\ ~outcome.done
    /\ Returns(processAction(probe.action, probe.pending, probe.answers,
                             probe.phase))

CallEvalPredicate ==
    /\ probe.fn = "evalPredicate"
    /\ ~outcome.done
    /\ Returns([b |-> evalPredicate(probe.pred, probe.answers)])

CallEvalConditional ==
    /\ probe.fn = "evalConditional"
    /\ ~outcome.done
    /\ Returns(evalConditional(probe.rules, probe.default, probe.answers))

CallEvalAgeFilter ==
    /\ probe.fn = "evalAgeFilter"
    /\ ~outcome.done
    /\ Returns(evalAgeFilter(probe.options, probe.age))

\* the value compare returns, or that it threw
CallCompare ==
    /\ probe.fn = "compare"
    /\ ~outcome.done
    /\ Returns([raised |-> compareRaises(probe.op, probe.answer.v, probe.value),
                b |-> /\ ~compareRaises(probe.op, probe.answer.v, probe.value)
                      /\ compare(probe.op, probe.answer.v, probe.value)])

CallEvalGenderFilter ==
    /\ probe.fn = "evalGenderFilter"
    /\ ~outcome.done
    /\ Returns(evalGenderFilter(probe.options, probe.gender.text))

\* one iteration of the while loop of resolveNext, or its exit
Iteration(call, queue) ==
    IF Len(queue) = 0
    THEN Resolved("exhausted", NoQuestion, NoResult, queue)
    ELSE LoopStep(Head(queue),
                  QuestionOf(SourceList(call.source, call.symptom), Head(queue)),
                  Tail(queue), call.answers, call.demoWithAge, call.phase)

Iterated(step) ==
    /\ outcome' = [done |-> step.kind # "continue", value |-> step,
                   caller |-> CallerAfter(outcome.caller, step.pending)]
    /\ UNCHANGED <<sessionVars, history, textOverrides, lastCall, trail, probe,
                 appVars>>

IterateResolveNext ==
    /\ probe.fn = "resolveNext"
    /\ ~outcome.done
    /\ \E step \in {Iteration(probe, outcome.value.pending)} : Iterated(step)

\* whether the activation of enterSequentialPhase for nextPhase ends in a
\* call of enterSequentialPhase(5, ...): no first qid or an exhausted queue
\* in phase 4, an advance_to_opd result in either phase
EntryReenters(kind, nextPhase) ==
    \/ kind = "advance_to_opd"
    \/ kind \in {"none", "exhausted"} /\ nextPhase = 4

\* the kind of result resolveNext gives the activation, "none" when the
\* tree has no first qid
EntryKind(source, call, nextPhase) ==
    IF getFirstQid(source, call.symptom) = "" THEN "none"
    ELSE resolveNext(source, call.symptom,
                     <<getFirstQid(source, call.symptom)>>, call.answers,
                     call.demographics, nextPhase).kind

Activated(held, reenters) ==
    /\ outcome' =
          [done |-> ~reenters,
           value |-> [next |-> 5,
                      entered4 |-> held.entered4
                                      + (IF held.next = 4 THEN 1 ELSE 0),
                      entered5 |-> held.entered5
                                      + (IF held.next = 5 THEN 1 ELSE 0)]]
    /\ UNCHANGED <<sessionVars, history, textOverrides, lastCall, trail, probe,
                 appVars>>

\* one activation of enterSequentialPhase, counted up to MaxEntries
EnterPhase ==
    /\ probe.fn = "enterSequentialPhase"
    /\ ~outcome.done
    /\ outcome.value.entered5 < MaxEntries
    /\ \E kind \in {EntryKind(IF outcome.value.next = 4 THEN "oldcarts"
                                ELSE "opd", probe, outcome.value.next)} :
          Activated(outcome.value, EntryReenters(kind, outcome.value.next))

CallInit ==
    /\ phase = 0
    /\ demographics = EmptyMap
    /\ allAnswers = EmptyMap
    /\ primarySymptom = ""
    /\ secondarySymptoms = <<>>
    /\ erCriticalFlags = EmptyMap
    /\ erChecklistFlags = EmptyMap
    /\ pending = <<>>
    /\ currentQuestion = NoQuestion
    /\ terminated = FALSE
    /\ result = NoResult
    /\ history = <<>>
    /\ textOverrides = EmptyMap
    /\ lastCall = Call("init", TRUE, 0)
    /\ trail = <<>>
    /\ ChooseProbe
    /\ outcome = Entered(probe)
    /\ AppInit

CallNext ==
    \/ CallProcessAction
    \/ IterateResolveNext
    \/ CallEvalPredicate
    \/ CallEvalConditional
    \/ CallEvalAgeFilter
    \/ CallEvalGenderFilter
    \/ CallCompare
    \/ EnterPhase

CallSpec == CallInit /\ [][CallNext]_vars

\* a call of resolveNext runs to its return
LoopSpec == CallSpec /\ WF_vars(IterateResolveNext)

----------------------------------------------------------------------------
(* Properties of processAction *)

\* the targets that are neither answered nor queued, in their listed order
RECURSIVE Kept(_, _, _)
Kept(targets, answered, queue) ==
    IF Len(targets) = 0 THEN <<>>
    ELSE (IF \/ Head(targets) \in answered
             \/ \E i \in 1..Len(queue) : queue[i] = Head(targets)
          THEN <<>>
          ELSE <<Head(targets)>>)
         \o Kept(Tail(targets), answered, queue)

\* processAction has returned from a Goto
GotoProcessed ==
    /\ probe.fn = "processAction"
    /\ probe.action.action = "goto"
    /\ outcome.done

\* res leaves the queue as fresh ++ queue, fresh[1] being the next qid the
\* loop shifts off it
PutsInFront(fresh, queue, res) ==
    /\ res.type = "continue"
    /\ res.pending = fresh \o queue
    /\ Len(fresh) > 0 => Head(res.pending) = fresh[1]

\* C15: processing Goto{targets} turns the queue Q into F ++ Q, F being the
\* targets that are neither answered nor in Q, in their listed order; the
\* entries of Q keep their order behind F, and the next qid resolved is the
\* first of F when F is not empty.
GotoPrependsNewTargets ==
    GotoProcessed =>
        PutsInFront(Kept(probe.action.qid, DOMAIN probe.answers, probe.pending),
                    probe.pending, outcome.value)

\* two targets, one of them answered or queued, put before a queue that
\* is not empty
OneTargetPrepended ==
    /\ GotoProcessed
    /\ Len(probe.action.qid) = 2
    /\ Len(probe.pending) > 0
    /\ Len(outcome.value.pending) = Len(probe.pending) + 1

----------------------------------------------------------------------------
(* Properties of resolveNext *)

ResolveNextCalled == probe.fn = "resolveNext"
ResolveNextReturned == ResolveNextCalled /\ outcome.done

\* a question of the list that is shown to the user
ShownQuestionOf(questions, question) ==
    /\ \E i \in 1..Len(questions) : questions[i] = question
    /\ ~IsAutoEvaluated(question)

\* r is exactly one of: a user-facing question, a Terminate result, the
\* signal to advance to OPD, exhausted with an empty queue
OneOfFourWays(r, questions) ==
    \/ /\ r.kind = "question"
       /\ ShownQuestionOf(questions, r.question)
       /\ r.termination = NoResult
    \/ /\ r.kind = "terminate"
       /\ r.termination # NoResult
       /\ r.question = NoQuestion
    \/ /\ r.kind = "advance_to_opd"
       /\ r.termination = NoResult
       /\ r.question = NoQuestion
    \/ /\ r.kind = "exhausted"
       /\ r.pending = <<>>
       /\ r.termination = NoResult
       /\ r.question = NoQuestion

\* the value the iterations end with is the value of resolveNext
ReturnsResolveNext(call, r) ==
    r = resolveNext(call.source, call.symptom, call.pending, call.answers,
                    call.demographics, call.phase)

\* C16: over a rule graph whose goto edges form no cycle, from every
\* pending queue and every answers map, the loop of resolveNext comes to an
\* end, and it ends in exactly one of four ways: a user-facing question, a
\* Terminate result, the advance-to-OPD signal, or exhausted with an empty
\* queue.
ResolveLoopTerminates ==
    /\ ResolveNextCalled ~> outcome.done
    /\ [](ResolveNextReturned =>
             /\ OneOfFourWays(outcome.value,
                              SourceList(probe.source, probe.symptom))
             /\ ReturnsResolveNext(probe, outcome.value))

\* the loop has returned a question that was not in the queue it was given:
\* it reached it through the gotos of auto-evaluated questions
QuestionReachedByGoto ==
    /\ ResolveNextReturned
    /\ outcome.value.kind = "question"
    /\ \A i \in 1..Len(probe.pending) :
          probe.pending[i] # outcome.value.question.qid

----------------------------------------------------------------------------
(* Properties of evalPredicate and evalConditional *)

PredicateEvaluated == probe.fn = "evalPredicate" /\ outcome.done
ConditionalEvaluated == probe.fn = "evalConditional" /\ outcome.done

\* the predicate refers to a qid the answers map has no entry for
RefersToAbsent(pred, answers) == pred.qid \notin DOMAIN answers

HasAbsentQid(rule, answers) ==
    \E i \in 1..Len(rule.when) : RefersToAbsent(rule.when[i], answers)

\* C17: whatever the operator (ne and not_contains included), a predicate
\* whose qid is absent from the answers map evaluates to false, so a
\* conditional rule containing such a predicate never matches: its `then`
\* is not what evalConditional returns.
AbsentQidIsFalse ==
    /\ (PredicateEvaluated /\ RefersToAbsent(probe.pred, probe.answers)) =>
          outcome.value.b = FALSE
    /\ ConditionalEvaluated =>
          \A i \in 1..Len(probe.rules) :
              HasAbsentQid(probe.rules[i], probe.answers) =>
                  outcome.value # probe.rules[i].then

\* a `ne` predicate was evaluated over answers that lack its qid
AbsentNeEvaluated ==
    /\ PredicateEvaluated
    /\ probe.pred.op = "ne"
    /\ ~probe.pred.hasField
    /\ RefersToAbsent(probe.pred, probe.answers)
    /\ Cardinality(DOMAIN probe.answers) = 1

\* text occurs somewhere in whole
OccursIn(text, whole) ==
    \E i \in 1..Len(whole) : \E j \in i..Len(whole) : SubSeq(whole, i, j) = text

\* what a predicate of the probed rules says of the answers: eq, ne and
\* not_contains over answers that are texts
Says(pred, answers) ==
    /\ pred.qid \in DOMAIN answers
    /\ CASE pred.op = "eq" -> answers[pred.qid] = pred.value
         [] pred.op = "ne" -> answers[pred.qid] # pred.value
         [] pred.op = "not_contains" ->
               ~OccursIn(pred.value.s, answers[pred.qid].s)

AllHold(rule, answers) ==
    \A i \in 1..Len(rule.when) : Says(rule.when[i], answers)

\* the value is the `then` of the first of the matching rules, the default
\* action when no rule matches
FirstOrDefault(rules, matching, default, value) ==
    IF matching = {}
    THEN value = default
    ELSE \E i \in matching :
            /\ \A j \in matching : i <= j
            /\ value = rules[i].then
            /\ \A j \in matching : j > i => value # rules[j].then

\* C18: evalConditional returns the `then` of the first rule in declaration
\* order whose `when` predicates all hold, the default action when no rule
\* matches, and no action when no rule matches and there is no default; a
\* matching rule later in the list never overrides an earlier one.
FirstMatchingRuleWins ==
    ConditionalEvaluated =>
        FirstOrDefault(probe.rules,
                       {i \in 1..Len(probe.rules) :
                           AllHold(probe.rules[i], probe.answers)},
                       probe.default, outcome.value)

\* two rules with predicates matched, and the first was returned
EarlierOfTwoMatchesReturned ==
    /\ ConditionalEvaluated
    /\ Len(probe.rules) = 2
    /\ \A i \in 1..2 : /\ Len(probe.rules[i].when) > 0
                       /\ AllHold(probe.rules[i], probe.answers)
    /\ probe.rules[1].when # probe.rules[2].when
    /\ outcome.value = probe.rules[1].then

----------------------------------------------------------------------------
(* Properties of evalAgeFilter *)

AgeFilterEvaluated ==
    probe.fn = "evalAgeFilter" /\ outcome.done /\ probe.age.known

\* the age meets a stated condition
Meets(cond, age) ==
    /\ cond.ok
    /\ CASE cond.rel = "<"  -> age < cond.threshold
         [] cond.rel = "<=" -> age <= cond.threshold
         [] cond.rel = ">"  -> age > cond.threshold
         [] cond.rel = ">=" -> age >= cond.threshold

\* some option id of the list has the form {op}_{threshold}
SomeIdStructured(kinds) == \E i \in 1..Len(kinds) : kinds[i].byId.ok

\* the threshold condition parsed for an option: the one its id states,
\* the one its label states when its id states none
ParsedCondition(kind) == IF kind.byId.ok THEN kind.byId ELSE kind.byLabel

\* the value is the action of the first of the holding options, of the last
\* option when none holds, and no action when there is no option
FirstHoldingOrLast(kinds, holding, value) ==
    IF Len(kinds) = 0 THEN value = NoAction
    ELSE IF holding = {} THEN value = PlaceAction(Len(kinds))
    ELSE \E i \in holding : /\ \A j \in holding : i <= j
                            /\ value = PlaceAction(i)

\* C19: for a known age evalAgeFilter returns the action of the first
\* option in declared order whose threshold condition holds for the age,
\* the action of the last option when no option's condition holds, and no
\* action when the option list is empty.
FirstHoldingAgeOptionWins ==
    AgeFilterEvaluated =>
        FirstHoldingOrLast(probe.kinds,
                           {i \in 1..Len(probe.kinds) :
                               Meets(ParsedCondition(probe.kinds[i]),
                                     probe.age.n)},
                           outcome.value)

\* options lt_15 and gt_15 with age 15: no condition holds and the last
\* option was returned
NoConditionHoldsAtFifteen ==
    /\ AgeFilterEvaluated
    /\ probe.age.n = 15
    /\ Len(probe.kinds) = 2
    /\ probe.kinds[1].id = s_lt_15
    /\ probe.kinds[2].id = s_gt_15
    /\ outcome.value = PlaceAction(2)

\* option i, whose id has not the structured form, is returned only as the
\* last option, when no id of the list states a condition that holds
OnlyAsLastOption(kinds, i, age) ==
    /\ i = Len(kinds)
    /\ \A j \in 1..Len(kinds) : ~Meets(kinds[j].byId, age)

\* C20: when at least one option id has the form {op}_{threshold}, labels
\* are not consulted: an option whose id has not that form is never selected
\* through its label.
LabelsOnlyWithoutStructuredIds ==
    (AgeFilterEvaluated /\ SomeIdStructured(probe.kinds)) =>
        \A i \in 1..Len(probe.kinds) :
            (~probe.kinds[i].byId.ok /\ outcome.value = PlaceAction(i)) =>
                OnlyAsLastOption(probe.kinds, i, probe.age.n)

----------------------------------------------------------------------------
(* Properties of evalGenderFilter *)

GenderFilterEvaluated == probe.fn = "evalGenderFilter" /\ outcome.done

\* the option names the gender by its id or by its label
NamesGender(kind, gender) ==
    kind.byId = gender.names \/ kind.byLabel = gender.names

\* the value is the action of the first of the matching options, no action
\* when no option matches
FirstMatchOrNone(matching, value) ==
    IF matching = {} THEN value = NoAction
    ELSE \E i \in matching : /\ \A j \in matching : i <= j
                             /\ value = PlaceAction(i)

\* C21: evalGenderFilter compares the gender with each option's id and
\* label without regard to case and with surrounding blanks trimmed on both
\* sides of the comparison; the first option in declared order that matches
\* by id or by label supplies the action, and no option matching gives no
\* action.
GenderMatchIgnoresCaseAndBlanks ==
    GenderFilterEvaluated =>
        FirstMatchOrNone({i \in 1..Len(probe.kinds) :
                             NamesGender(probe.kinds[i], probe.gender)},
                         outcome.value)

----------------------------------------------------------------------------
(* Properties of compare *)

CompareCalled == probe.fn = "compare" /\ outcome.done

NumericOps == {"lt", "le", "gt", "ge", "between"}

\* the comparison of numbers an operator stands for, between taking both
\* of its bounds in
NumericRelation(op, n, value) ==
    CASE op = "lt" -> n < value.n
      [] op = "le" -> n <= value.n
      [] op = "gt" -> n > value.n
      [] op = "ge" -> n >= value.n
      [] op = "between" -> value.l[1].n <= n /\ n <= value.l[2].n

\* C22: for lt, le, gt, ge and between compare returns false for every
\* answer that cannot be coerced to a number (the empty string, text that
\* is no number and lists included), and the numeric comparison otherwise,
\* between being inclusive at both bounds.
NumericCompareNeedsANumber ==
    (CompareCalled /\ probe.op \in NumericOps /\ ~probe.malformed) =>
        /\ ~outcome.value.raised
        /\ outcome.value.b =
              (/\ probe.answer.isNumber
               /\ NumericRelation(probe.op, probe.answer.n, probe.value))

\* C23: predicate evaluation never raises for malformed rule data: for an
\* unknown operator, for matches with a pattern that does not compile, and
\* for between / contains_any / contains_all with an expected value that is
\* no list, compare returns false as a value.
MalformedRuleDataIsFalse ==
    (CompareCalled /\ probe.malformed) =>
        /\ ~outcome.value.raised
        /\ outcome.value.b = FALSE

----------------------------------------------------------------------------
(* Properties of answering the displayed question *)

\* the action of the first option whose id is the text, no action when no
\* option has that id
RECURSIVE OptionActionFor(_, _)
OptionActionFor(options, text) ==
    IF Len(options) = 0 THEN NoAction
    ELSE IF Head(options).id = text THEN Head(options).action
    ELSE OptionActionFor(Tail(options), text)

\* the outgoing action by the kind of the answered question
ActionByKind(question, value) ==
    CASE question.question_type \in {"single_select", "image_single_select"} ->
            IF value.k = "str" THEN OptionActionFor(question.options, value.s)
            ELSE NoAction
      [] question.question_type \in {"multi_select", "image_multi_select"} ->
            question.next
      [] question.question_type
            \in {"free_text", "free_text_with_fields", "number_range"} ->
            question.on_submit

\* the step leaves the session as the resolve-next loop's result r has it
Settles(r) ==
    CASE r.kind = "question" ->
            /\ phase' = phase /\ ~terminated'
            /\ currentQuestion' = r.question
            /\ pending' = r.pending
      [] r.kind = "terminate" ->
            /\ phase' = phase /\ terminated'
            /\ result' = r.termination
      [] r.kind = "exhausted" /\ phase = 5 ->
            /\ phase' = 5 /\ terminated'
            /\ result' = GenericCompletion
      [] OTHER -> SeededFromOpd(OpdEntryOutcome)

\* the step terminates the session with what the Terminate action names
TerminatesWith(action) ==
    /\ phase' = phase /\ terminated'
    /\ result'.type = (IF phase < 5 THEN "terminated" ELSE "completed")
    /\ [i \in 1..Len(result'.departments) |-> result'.departments[i].id]
          = action.department
    /\ IF Len(action.severity) = 0 THEN result'.severity = NullSeverity
       ELSE result'.severity.id = action.severity[1]

\* the queue a Goto leaves for the loop: its new targets before the old
\* entries; any other action leaves the queue alone
QueueLeftBy(action, answered) ==
    IF action.action = "goto"
    THEN Kept(action.qid, answered, pending) \o pending
    ELSE pending

\* the step does with the action what the loop does with one
ProcessedAsInLoop(action, source) ==
    CASE action.action = "terminate" -> TerminatesWith(action)
      [] action.action = "opd" -> SeededFromOpd(OpdEntryOutcome)
      [] OTHER ->
            Settles(resolveNext(source, primarySymptom,
                                QueueLeftBy(action, DOMAIN allAnswers'),
                                allAnswers', demographics, phase))

\* C24: when the displayed question is answered the outgoing action depends
\* only on the kind of the question: the action of the option whose id is
\* the answer for the single-select kinds (none if no option has that id),
\* the question's next action for the multi-select kinds, on_submit for
\* free_text, free_text_with_fields and number_range; the action is
\* processed as in the resolve-next loop (goto, opd, terminate) and the loop
\* resumes from the updated queue.
AnswerActionFollowsKind ==
    [][(SubmittedIn(4) \/ SubmittedIn(5)) =>
          /\ allAnswers' = Spread(allAnswers,
                                  [q \in {currentQuestion.qid} |->
                                      SubmittedValue(history')])
          /\ ProcessedAsInLoop(ActionByKind(currentQuestion,
                                            SubmittedValue(history')),
                               IF phase = 4 THEN "oldcarts" ELSE "opd")]_vars

\* a multi-select question was answered and its next action, opd, has led
\* to phase 5
MultiSelectAnswered ==
    /\ Submitted /\ phase = 5
    /\ history[Len(history)].phase = 4
    /\ history[Len(history)].currentQuestion.question_type = "multi_select"

----------------------------------------------------------------------------
(* Properties of the history stack *)

\* the call passes both early returns of submitAnswer
PassesGuards ==
    /\ ~terminated
    /\ ~(phase \in {4, 5} /\ currentQuestion = NoQuestion)

\* the nine session fields an entry stores
StateIn(entry) ==
    [phase |-> entry.phase, demographics |-> entry.demographics,
     allAnswers |-> entry.allAnswers, primarySymptom |-> entry.primarySymptom,
     secondarySymptoms |-> entry.secondarySymptoms,
     erCriticalFlags |-> entry.erCriticalFlags,
     erChecklistFlags |-> entry.erChecklistFlags, pending |-> entry.pending,
     currentQuestion |-> entry.currentQuestion]

\* the nine session fields as they are now
StateNow ==
    [phase |-> phase, demographics |-> demographics,
     allAnswers |-> allAnswers, primarySymptom |-> primarySymptom,
     secondarySymptoms |-> secondarySymptoms,
     erCriticalFlags |-> erCriticalFlags,
     erChecklistFlags |-> erChecklistFlags, pending |-> pending,
     currentQuestion |-> currentQuestion]

\* the value is what the step has stored as the answer of its phase
IsAnswerStored(value) ==
    CASE phase = 0 -> demographics' = value
      [] phase = 1 -> erCriticalFlags' = value
      [] phase = 2 -> /\ primarySymptom' = value.primary_symptom
                      /\ secondarySymptoms' = value.secondary_symptoms
      [] phase = 3 -> erChecklistFlags' = value
      [] OTHER -> allAnswers'[currentQuestion.qid] = value

\* the step pushes one entry holding the state before it and the raw answer
PushesSnapshot ==
    /\ Len(history') = Len(history) + 1
    /\ SubSeq(history', 1, Len(history)) = history
    /\ StateIn(history'[Len(history')]) = StateNow
    /\ IsAnswerStored(history'[Len(history')].answerValue)

\* the step takes the newest entry off, if there is one
PopsOne ==
    IF Len(history) = 0 THEN history' = history
    ELSE history' = SubSeq(history, 1, Len(history) - 1)

\* C25: every accepted submitAnswer appends exactly one history entry, which
\* holds the session state as it was immediately before the submission and
\* the raw submitted answer; a rejected submission appends none; a goBack
\* takes one entry off and a reset empties the history, so the length of the
\* history is the number of accepted submissions minus the goBacks since the
\* last reset; canGoBack holds exactly when the history is not empty.
HistoryCountsSubmissions ==
    /\ [](canGoBack <=> history # <<>>)
    /\ [][CASE lastCall'.op = "submitAnswer" /\ PassesGuards -> PushesSnapshot
            [] lastCall'.op = "submitAnswer" -> history' = history
            [] lastCall'.op = "goBack" -> PopsOne
            [] lastCall'.op = "reset" -> history' = <<>>
            [] OTHER -> history' = history]_vars

\* the critical screen was submitted on top of the demographics entry and
\* the new entry holds the submitted flags
EntryHoldsRawAnswer ==
    /\ Submitted /\ phase = 2 /\ Len(history) = 2
    /\ history[2].phase = 1
    /\ history[2].answerValue = erCriticalFlags

\* C26: goBack removes exactly the newest history entry and puts the nine
\* stored fields of that entry in place of the live ones, leaving terminated
\* false and result null, also when the session was terminated; on an empty
\* history goBack changes nothing.
GoBackPopsAndRestores ==
    [][lastCall'.op = "goBack" =>
          IF Len(history) = 0
          THEN UNCHANGED <<sessionVars, history, textOverrides>>
          ELSE /\ history' = SubSeq(history, 1, Len(history) - 1)
               /\ StateNow' = StateIn(history[Len(history)])
               /\ ~terminated'
               /\ result' = NoResult]_vars

\* a goBack was made on a session that the critical screen had terminated
TerminatedSessionReopened ==
    /\ lastCall.op = "goBack" /\ lastCall.accepted /\ lastCall.onTerminated
    /\ phase = 1 /\ ~terminated /\ result = NoResult

----------------------------------------------------------------------------
(* Properties of the text overrides *)

\* C27: submitAnswer, goBack and reset never change textOverrides; no
\* history entry holds them; reset puts every session field and the history
\* back to the initial phase-0 empty state and leaves textOverrides as they
\* were; setQuestionText and setOptionLabel change only textOverrides.
OverridesAreIndependent ==
    /\ [](\A i \in 1..Len(history) : "textOverrides" \notin DOMAIN history[i])
    /\ [][/\ lastCall'.op \in {"submitAnswer", "goBack", "reset"} =>
                textOverrides' = textOverrides
          /\ lastCall'.op = "reset" =>
                /\ Live' = InitialState
                /\ history' = <<>>
          /\ lastCall'.op \in {"setQuestionText", "setOptionLabel"} =>
                UNCHANGED <<sessionVars, history>>]_vars

\* a session was reset while an override was saved
ResetKeptOverrides ==
    /\ lastCall.op = "reset"
    /\ phase = 0 /\ history = <<>> /\ allAnswers = EmptyMap
    /\ textOverrides # EmptyMap

----------------------------------------------------------------------------
(* Properties of auto-evaluated questions that give no action *)

\* the question the next iteration of the called loop takes off its queue
HeadQuestion ==
    QuestionOf(SourceList(probe.source, probe.symptom),
               Head(outcome.value.pending))

\* the called loop is about to evaluate a question of the given kind that
\* resolves to no action
NothingResolved(kind) ==
    /\ probe.fn = "resolveNext" /\ ~outcome.done
    /\ Len(outcome.value.pending) > 0
    /\ Head(outcome.value.pending) \notin DOMAIN probe.answers
    /\ HeadQuestion # NoQuestion
    /\ HeadQuestion.question_type = kind
    /\ autoEvaluate(HeadQuestion, probe.answers, probe.demoWithAge) = NoAction

\* C28: an auto-evaluated question that resolves to no action is discarded
\* and the loop goes on with the next queue entry, the rest of the queue
\* being as it was; with no entry left the loop returns exhausted; no call
\* ends without a result.
NoActionIsDiscarded ==
    /\ [][(\E kind \in AUTO_EVAL_TYPES : NothingResolved(kind)) =>
             /\ ~outcome'.done
             /\ outcome'.value.kind = "continue"
             /\ outcome'.value.pending = Tail(outcome.value.pending)]_vars
    /\ [][(/\ probe.fn = "resolveNext" /\ ~outcome.done
           /\ Len(outcome.value.pending) = 0) =>
             /\ outcome'.done
             /\ outcome'.value.kind = "exhausted"]_vars

\* an age filter met with no age known was discarded and one entry is left
UnknownAgeFilterDiscarded ==
    /\ probe.fn = "resolveNext" /\ ~outcome.done
    /\ probe.demographics = EmptyMap
    /\ Len(probe.pending) = 2 /\ probe.pending[1] = "v_o_3"
    /\ probe.pending[2] # "v_o_3"
    /\ outcome.value.kind = "continue"
    /\ outcome.value.pending = Tail(probe.pending)

----------------------------------------------------------------------------
(* Properties of the history sidebar *)

\* C29: after goBackTo(index) the history consists of exactly its first
\* index entries and the live session state is the snapshot stored in the
\* entry that was at position index, for every index.
GoBackToRestoresThatEntry ==
    [][lastCall'.op = "goBackTo" =>
          /\ history' = SubSeq(history, 1, lastCall'.index)
          /\ StateNow' = StateIn(history[lastCall'.index + 1])
          /\ ~terminated' /\ result' = NoResult]_vars

\* after goBackTo(index) the history consists of its first index entries
\* and the live session state is the snapshot stored in its newest entry
GoBackToRestoresNewestEntry ==
    [][lastCall'.op = "goBackTo" =>
          /\ history' = SubSeq(history, 1, lastCall'.index)
          /\ StateNow' = StateIn(history[Len(history)])
          /\ ~terminated' /\ result' = NoResult]_vars

----------------------------------------------------------------------------
(* Properties of the arguments of resolveNext *)

----------------------------------------------------------------------------
(* Properties of the result of a terminated session *)

\* C32: a Terminate action processed while the phase is below 5 gives a
\* result of type "terminated", one processed in phase 5 a result of type
\* "completed"; a result of type "completed" is found in phase 5 only, and
\* the terminations of the two ER screens (phases 1 and 3) are of type
\* "terminated".
TerminationTypeFollowsPhase ==
    /\ result.type = "completed" => phase = 5
    /\ terminated =>
          result.type = (IF phase = 5 THEN "completed" ELSE "terminated")

\* a Terminate action attached to an OPD option has ended the session
OpdOptionTerminated ==
    /\ Submitted /\ terminated /\ phase = 5
    /\ result.reason.text = "cough"
    /\ result.type = "completed"

\* C33: terminated is true exactly when result is not null: whatever sets
\* terminated also sets a result, and goBack and reset clear both.
TerminatedIffResult == terminated <=> result # NoResult

\* the checklist has ended the session and stored its result
ChecklistTerminated ==
    /\ Submitted /\ terminated /\ phase = 3
    /\ result.type = "terminated"

----------------------------------------------------------------------------
(* Properties of the sequential phases *)

\* the questions of the tree of phase ph for the primary symptom
TreeOf(ph) ==
    SourceList(IF ph = 4 THEN "oldcarts" ELSE "opd", primarySymptom)

\* C34: in phase 4 or 5, while the session is not terminated, a question is
\* displayed and it is a question of the tree of the phase (oldcarts for 4,
\* opd for 5) for the primary symptom, so submitAnswer is not rejected.
SequentialPhaseShowsItsQuestion ==
    (phase \in {4, 5} /\ ~terminated) =>
        /\ currentQuestion # NoQuestion
        /\ \E i \in 1..Len(TreeOf(phase)) : TreeOf(phase)[i] = currentQuestion
        /\ PassesGuards

\* C35: within one call phase 4 is entered at most once and phase 5 at most
\* once, also when an Opd action is produced while phase 5 is being
\* resolved: entering a sequential phase does not enter it again.
EachPhaseEnteredOnce ==
    probe.fn = "enterSequentialPhase" =>
        /\ outcome.value.entered4 <= 1
        /\ outcome.value.entered5 <= 1

\* a call that produces no Opd action in phase 5 enters each phase at most
\* once
EachPhaseEnteredOnceWithoutOpd ==
    (probe.fn = "enterSequentialPhase" /\ probe.symptom # "Nausea") =>
        /\ outcome.value.entered4 <= 1
        /\ outcome.value.entered5 <= 1

\* the age submitAnswer passes to resolveErChecklistTermination in phase 3
\* and SimulatorTab passes to the checklist form
ChecklistAge == computeAge(Get(demographics, "date_of_birth"))

\* the age autoEvaluate passes to evalAgeFilter in phases 4 and 5
AgeFilterAge == FilterAge(demographics)

\* C37: from phase 3 on, the age that chooses the ER checklist bucket is
\* the age that age_filter questions are evaluated with, also for
\* demographics with a numeric age and no date of birth; the patient is
\* pediatric for both or for neither.
OneAgeForChecklistAndFilters ==
    phase >= 3 =>
        /\ ChecklistAge = AgeFilterAge
        /\ IsPediatric(ChecklistAge) <=> IsPediatric(AgeFilterAge)

\* the two ages agree for demographics that carry no numeric age
OneAgeWithoutNumericAge ==
    (phase >= 3 /\ Get(demographics, "age").k # "num") =>
        ChecklistAge = AgeFilterAge

\* a patient is pediatric for the checklist whenever pediatric for the
\* filters
PediatricForBoth ==
    phase >= 3 => (IsPediatric(ChecklistAge) <=> IsPediatric(AgeFilterAge))

\* the history entries pushed by submissions made in phase 4 or 5
SequentialEntries == {i \in 1..Len(history) : history[i].phase \in {4, 5}}

\* the number of OLDCARTS plus OPD questions of the primary symptom
SequentialQuestionCount == Len(TreeOf(4)) + Len(TreeOf(5))

\* the step adds the qid of the question shown to allAnswers as its only
\* new key and keeps every answer stored before
AddsOneNewKey ==
    /\ currentQuestion.qid \notin DOMAIN allAnswers
    /\ DOMAIN allAnswers' = DOMAIN allAnswers \cup {currentQuestion.qid}
    /\ \A q \in DOMAIN allAnswers : allAnswers'[q] = allAnswers[q]

\* C36: in forward play every accepted submission of phase 4 or 5 adds
\* the qid of the question shown as exactly one new key of allAnswers and
\* removes none; no question is answered twice; the sequential
\* submissions never outnumber the OLDCARTS plus OPD questions of the
\* primary symptom, and the session reaches terminated = true.
ForwardPlayAnswersEachQuestionOnce ==
    /\ [][(SubmittedIn(4) \/ SubmittedIn(5)) => AddsOneNewKey]_vars
    /\ [](\A i, j \in SequentialEntries :
              i # j => history[i].currentQuestion.qid
                           # history[j].currentQuestion.qid)
    /\ [](Cardinality(SequentialEntries) <= SequentialQuestionCount)
    /\ <>terminated

\* forward play has ended after four sequential submissions, the last one
\* made in phase 5
FourSequentialAnswers ==
    /\ Submitted /\ terminated /\ phase = 5
    /\ Cardinality(SequentialEntries) >= 4

----------------------------------------------------------------------------
(* Properties of version polling *)

\* the step settles the fetchVersion call res while the effect is mounted
SettlesPoll(res) == mounted /\ res \in inFlight /\ inFlight' = inFlight \ {res}

\* C31: a settled poll triggers the reload and the validation run, both or
\* neither, and only when its response carries a version different from
\* the recorded one, a version has been recorded and no editor is open;
\* the first successful poll triggers nothing; a failed poll changes
\* nothing; every successful poll records the version returned; nothing
\* but a poll changes reloadKey.
PollReloadsOnlyOnSeenChange ==
    /\ [][\A res \in inFlight :
             SettlesPoll(res) =>
                 IF res.ok
                 THEN /\ version' = res.version
                      /\ polled'.validated <=> reloadKey' # reloadKey
                      /\ reloadKey' # reloadKey =>
                            /\ reloadKey' = reloadKey + 1
                            /\ res.version # version
                            /\ version # NoVersion
                            /\ ~isEditing
                      /\ version = NoVersion => reloadKey' = reloadKey
                 ELSE /\ UNCHANGED <<version, reloadKey, isEditing,
                                     displayed>>
                      /\ ~polled'.validated]_vars
    /\ [][reloadKey' # reloadKey => \E res \in inFlight : SettlesPoll(res)]_vars

\* a second version change has been seen and reloaded with no editor open
SecondChangeReloaded ==
    /\ polled.kind = "recorded" /\ polled.reloaded
    /\ reloadKey = 2 /\ version = 3 /\ ~isEditing

\* C38: a version change seen by a poll is followed by a reload once no
\* editor is open: when a change has been seen while an editor was open
\* and the editor is closed, the data is loaded again (unless an editor is
\* opened again or the page is left).
SeenChangeIsReloaded ==
    (owed /\ ~isEditing /\ mounted) ~> (~owed \/ isEditing \/ ~mounted)

====
